---- MODULE Spec2Model ----
(***************************************************************************)
(* Version-gated ingestion pipeline of mad-data-loader.                    *)
(*                                                                         *)
(* DocumentProcessor.process_page (src/src/core/processor.py) fetches a    *)
(* wiki page, consults the SQLite version cache (src/src/utils/cache.py),  *)
(* applies the status gate, builds one record per document and per         *)
(* section, hands the batch to AzureSearchClient.index_documents           *)
(* (src/src/connectors/azure_search/client.py) and upserts the cache.      *)
(*                                                                         *)
(* Spec        : the orchestrator, one process_page invocation per step,   *)
(*               with every collaborator fault the code can meet drawn as  *)
(*               input; records what the last invocation did.              *)
(* SpecHistory : the same invocations, recording instead what was sent and *)
(*               completed over the whole run.                             *)
(* SpecDocs    : the record-building part of process_page applied to       *)
(*               bounded heading sequences, two batches at a time.         *)
(* SpecCache   : the methods of Cache on the rows of the document_cache    *)
(*               table, with storage errors and a clock.                   *)
(* SpecSpace   : process_space runs over listings of several pages.        *)
(* SpecMeta    : _extract_metadata applied to the tables of a page.        *)
(* SpecSegments: _split_content_into_sections applied to page bodies.      *)
(* SpecSink    : process_page invocations with the sink's response to the  *)
(*               publish call drawn as input.                              *)
(* SpecConfig  : main() --process-all runs over page registries.           *)
(* SpecTrace   : process_page invocations with the calls to the            *)
(*               summarizer, the embedder, the sink and the cache          *)
(*               observed.                                                 *)
(* SpecConcurrent: two instances inside process_page for one page,         *)
(*               interleaved at their cache and sink calls.                *)
(***************************************************************************)
EXTENDS Integers, Sequences, FiniteSets, TLC

VARIABLES
    force_reindex,  \* DocumentProcessor.force_reindex
    dry_run,        \* AzureSearchClient.dry_run
    cache,          \* document_cache table: key -> stored JSON value
    last,           \* Spec: what the most recent process_page invocation did
    sent,           \* SpecHistory: batches the sink took (publish call returned), per <<page id, version>>
    highest,        \* SpecHistory: per page: highest version whose processing completed (0: none)
    any_forced,     \* SpecHistory: some invocation so far ran with force_reindex set
    any_cache_fault,\* SpecHistory: some invocation so far met a storage error in Cache.get / Cache.set
    batches,        \* SpecDocs: the two most recently built batches, newest first
    document_cache, \* SpecCache: the rows of the document_cache table
    clock,          \* SpecCache: what Cache.current_timestamp() returns
    latest,         \* SpecCache: per key: the record of the most recent successful set not yet removed
    op,             \* SpecCache: the most recent cache operation and what it returned
    space_run,      \* SpecSpace: what the most recent process_space run did
    extraction,     \* SpecMeta: a fetched page and the metadata extracted from it
    segmentation,   \* SpecSegments: a page body and the sections it is split into
    delivery,       \* SpecSink: the sink's response to the most recent publish call
    summarize,      \* DocumentProcessor.summarize
    vectorize,      \* DocumentProcessor.vectorize
    trace,          \* SpecTrace: the collaborator calls of the most recent process_page invocation
    config_run,     \* SpecConfig: what the most recent --process-all run did
    workers         \* SpecConcurrent: the two pipeline instances inside process_page

orchestratorVars == <<force_reindex, dry_run, cache, sent, highest, any_forced,
                      any_cache_fault, last, batches>>
cacheVars == <<document_cache, clock, latest, op>>
unitVars == <<space_run, extraction, segmentation, delivery>>
runVars == <<summarize, vectorize, trace, config_run, workers>>

vars == <<orchestratorVars, cacheVars, unitVars, runVars>>

(***************************************************************************)
(* Bounds of the model.                                                    *)
(***************************************************************************)
FirstVersion == 9
LastVersion == 11
MaxHeadings == 2
MaxSent == 2
MaxClock == 2
MaxPages == 2
MaxRows == 2
MaxNodes == 3

PageIds == {"1001"}
Versions == FirstVersion..LastVersion

\* Status cell of the document-control table; "" is a table without a status row.
TableStatuses == {"", "Draft", "APPROVED", "Rejected"}

\* Numeric prefix of a heading text ("1.1 Detail" -> <<1, 1>>); <<>> is a
\* heading without one.
HeadingNumbers == {<<>>, <<1>>, <<1, 1>>}
Headings == [number : HeadingNumbers]

RECURSIVE SeqsUpTo(_, _)
SeqsUpTo(S, n) ==
    IF n = 0 THEN {<<>>}
    ELSE LET shorter == SeqsUpTo(S, n - 1)
         IN  shorter \cup {Append(s, x) : s \in {t \in shorter : Len(t) = n - 1}, x \in S}

\* Heading sequences of a page body, in document order.
Markups == SeqsUpTo(Headings, MaxHeadings)

\* The bodies the orchestrator runs meet: one without headings, one with two.
SpecMarkups == {<<>>, <<[number |-> <<1>>], [number |-> <<1, 1>>]>>}

\* A fetched page: version.number, the control table's status cell, the headings.
FetchedPages == [version : Versions, status : TableStatuses, headings : SpecMarkups]

None == <<>>
Some(v) == <<v>>

Min(a, b) == IF a < b THEN a ELSE b
Max(a, b) == IF a < b THEN b ELSE a

(***************************************************************************)
(* Formatting and parsing.                                                 *)
(***************************************************************************)
DigitChars == <<"0", "1", "2", "3", "4", "5", "6", "7", "8", "9">>

\* str(n) / f"{n}" of a non-negative int: its decimal digits.
RECURSIVE str(_)
str(n) == IF n < 10 THEN DigitChars[n + 1]
          ELSE str(n \div 10) \o DigitChars[(n % 10) + 1]

\* json.dumps of a non-negative int: the sequence of its decimal digits.
RECURSIVE json_number(_)
json_number(n) == IF n < 10 THEN <<n>>
                  ELSE Append(json_number(n \div 10), n % 10)

\* json.loads of a digit sequence.
RECURSIVE parse_number(_)
parse_number(ds) ==
    IF Len(ds) = 0 THEN 0
    ELSE 10 * parse_number(SubSeq(ds, 1, Len(ds) - 1)) + ds[Len(ds)]

\* json.dumps(value) of the cache record (the fields the gate and the stats read).
json_dumps(value) ==
    [version |-> json_number(value.version),
     document_count |-> json_number(value.document_count)]

json_loads(text) ==
    [version |-> parse_number(text.version),
     document_count |-> parse_number(text.document_count)]

\* str.upper() on the status values of the model.
upper(s) ==
    CASE s = "Draft" -> "DRAFT"
      [] s = "Rejected" -> "REJECTED"
      [] OTHER -> s

(***************************************************************************)
(* Version cache (utils/cache.py).  storage_ok = FALSE is sqlite raising   *)
(* inside the method's try block; "raised" is whether the method lets an   *)
(* exception out to its caller.                                            *)
(***************************************************************************)
\* Cache.get that never finds the row (a lookup under another key).
cache_get_always_misses(store, key, storage_ok) ==
    [raised |-> FALSE, value |-> None]

\* Cache.get whose except clause re-raises, as Cache._init_db does.
cache_get_reraises(store, key, storage_ok) ==
    [raised |-> ~storage_ok,
     value |-> IF storage_ok /\ key \in DOMAIN store
               THEN Some(json_loads(store[key])) ELSE None]

\* Cache.get: the parsed value, or None when the key is absent or storage fails.
cache_get(store, key, storage_ok) ==
    [raised |-> FALSE,
     value |-> IF storage_ok /\ key \in DOMAIN store
               THEN Some(json_loads(store[key])) ELSE None]

\* Cache.set written with INSERT OR IGNORE: an existing row is kept.
cache_set_insert_or_ignore(store, key, value, storage_ok) ==
    [raised |-> FALSE,
     ok |-> storage_ok,
     store |-> IF storage_ok
               THEN [k \in DOMAIN store \cup {key} |->
                        IF k \in DOMAIN store THEN store[k] ELSE json_dumps(value)]
               ELSE store]

\* Cache.set: INSERT OR REPLACE of the row; on a storage error the store is
\* unchanged and False is returned.
cache_set(store, key, value, storage_ok) ==
    [raised |-> FALSE,
     ok |-> storage_ok,
     store |-> IF storage_ok
               THEN [k \in DOMAIN store \cup {key} |->
                        IF k = key THEN json_dumps(value) ELSE store[k]]
               ELSE store]

\* Version held for a key, 0 when there is no row.
cached_version_of(store, key) ==
    IF key \in DOMAIN store THEN json_loads(store[key]).version ELSE 0

(***************************************************************************)
(* Version cache at the level of the table rows (utils/cache.py).  A row   *)
(* is [key, value, created_at, last_accessed]; key is the PRIMARY KEY.     *)
(* Every method returns [raised, result, table]: whether an exception      *)
(* leaves the method, what it returns, and the rows afterwards.  A storage *)
(* error rolls the transaction back, so the rows are then unchanged.       *)
(***************************************************************************)
CacheKeys == {"1001", "1002"}

\* The records the cache operations are exercised with.
CacheValues == [version : {FirstVersion, LastVersion}, document_count : {1}]

\* SELECT ... FROM document_cache WHERE key = ?
select_where(table, key) == {r \in table : r.key = key}

\* An INSERT that keeps a row already stored under the key.
insert_or_ignore(table, row) ==
    IF select_where(table, row.key) # {} THEN table ELSE table \cup {row}

\* INSERT OR REPLACE: a row with the same primary key is deleted first.
insert_or_replace(table, row) ==
    {r \in table : r.key # row.key} \cup {row}

\* An UPDATE of last_accessed without its WHERE clause.
update_last_accessed_everywhere(table, key, now) ==
    {[r EXCEPT !.last_accessed = now] : r \in table}

\* UPDATE document_cache SET last_accessed = ? WHERE key = ?
update_last_accessed(table, key, now) ==
    {IF r.key = key THEN [r EXCEPT !.last_accessed = now] ELSE r : r \in table}

\* A DELETE without its WHERE clause.
delete_everywhere(table, key) == {}

\* DELETE FROM document_cache WHERE key = ?
delete_where(table, key) == {r \in table : r.key # key}

\* Cache._init_db: CREATE TABLE IF NOT EXISTS; the except clause logs and
\* re-raises.
_init_db(table, storage_ok) ==
    [raised |-> ~storage_ok, result |-> None, table |-> table]

\* A Cache.get that writes the row it found again, as Cache.set would.
get_rewriting_the_row(table, key, now, storage_ok) ==
    LET found == select_where(table, key)
    IN  IF ~storage_ok \/ found = {}
        THEN [raised |-> FALSE, result |-> None, table |-> table]
        ELSE [raised |-> FALSE,
              result |-> Some(json_loads((CHOOSE r \in found : TRUE).value)),
              table |-> insert_or_replace(table,
                            [key |-> key, value |-> (CHOOSE r \in found : TRUE).value,
                             created_at |-> now, last_accessed |-> now])]

\* Cache.get.
get(table, key, now, storage_ok) ==
    LET found == select_where(table, key)
    IN  IF ~storage_ok THEN [raised |-> FALSE, result |-> None, table |-> table]
        ELSE IF found = {} THEN [raised |-> FALSE, result |-> None, table |-> table]
        ELSE [raised |-> FALSE,
              result |-> Some(json_loads((CHOOSE r \in found : TRUE).value)),
              table |-> update_last_accessed(table, key, now)]

\* Cache.set.
set(table, key, value, now, storage_ok) ==
    IF ~storage_ok THEN [raised |-> FALSE, result |-> FALSE, table |-> table]
    ELSE [raised |-> FALSE, result |-> TRUE,
          table |-> insert_or_replace(table,
                        [key |-> key, value |-> json_dumps(value),
                         created_at |-> now, last_accessed |-> now])]

\* Cache.delete.
delete(table, key, storage_ok) ==
    IF ~storage_ok THEN [raised |-> FALSE, result |-> FALSE, table |-> table]
    ELSE [raised |-> FALSE, result |-> TRUE, table |-> delete_where(table, key)]

\* Cache.clear: SELECT COUNT(*), then DELETE of every row.
clear(table, storage_ok) ==
    IF ~storage_ok THEN [raised |-> FALSE, result |-> 0, table |-> table]
    ELSE [raised |-> FALSE, result |-> Cardinality(table), table |-> {}]

\* Cache.get_keys: the keys of the rows (here as a set), [] on an error.
get_keys(table, storage_ok) ==
    [raised |-> FALSE,
     result |-> IF storage_ok THEN {r.key : r \in table} ELSE {},
     table |-> table]

\* ORDER BY created_at DESC / ASC LIMIT 1; None on an empty table.
most_recent_created(table) ==
    IF table = {} THEN None
    ELSE Some(CHOOSE t \in {r.created_at : r \in table} :
                 \A r \in table : r.created_at <= t)

oldest_created(table) ==
    IF table = {} THEN None
    ELSE Some(CHOOSE t \in {r.created_at : r \in table} :
                 \A r \in table : t <= r.created_at)

\* Cache.get_stats: on a storage error the dict has the keys "error" and
\* "database_path" only.
get_stats(table, storage_ok) ==
    [raised |-> FALSE,
     result |-> IF storage_ok
                THEN [total_entries |-> Cardinality(table),
                      most_recent_entry |-> most_recent_created(table),
                      oldest_entry |-> oldest_created(table),
                      database_path |-> "document_cache.db"]
                ELSE [error |-> "storage", database_path |-> "document_cache.db"],
     table |-> table]

\* The keys of the stats dict that main() subscripts for --cache-status.
StatsKeysRead == {"total_entries", "most_recent_entry", "oldest_entry", "database_path"}

\* main() --cache-status: stats[...] of a missing key raises KeyError; the
\* key listing is printed afterwards.
cache_status(table, storage_ok) ==
    LET stats == get_stats(table, storage_ok).result
    IN  [raised |-> ~(StatsKeysRead \subseteq DOMAIN stats),
         result |-> IF StatsKeysRead \subseteq DOMAIN stats
                    THEN Some(stats.total_entries) ELSE None,
         table |-> table]

NoOp ==
    [name |-> "none", key |-> "", storage_ok |-> TRUE, existed |-> FALSE,
     raised |-> FALSE, result |-> None]

(***************************************************************************)
(* Metadata and segmentation, as far as the orchestrator reads them.       *)
(***************************************************************************)
\* A default status that passes the status gate.
extract_status_defaulting_to_draft(page) ==
    IF page.status = "" THEN "Draft" ELSE page.status

\* _extract_metadata: the status of the control table, "UNKNOWN" when absent.
extract_status(page) == IF page.status = "" THEN "UNKNOWN" ELSE page.status

\* A status gate that stops explicitly rejected pages only.
status_gate_rejected_only(status) == upper(status) = "REJECTED"

\* The status gate of process_page: TRUE when the page is to be skipped.
status_gate_skips(status) == upper(status) \notin {"DRAFT", "APPROVED"}

\* section_number.replace('.', '_') of a dotted number.
RECURSIVE join_number(_)
join_number(number) ==
    IF Len(number) = 1 THEN str(number[1])
    ELSE join_number(SubSeq(number, 1, Len(number) - 1)) \o "_" \o str(number[Len(number)])

\* Section id of the heading at (1-based) position i.
section_id(i, heading) ==
    IF heading.number # <<>> THEN "section_" \o join_number(heading.number)
    ELSE "section_" \o str(i)

\* _split_content_into_sections: the section ids, in heading order; one
\* synthetic section when the body has no heading.
split_section_ids(headings) ==
    IF Len(headings) = 0 THEN <<"section_1">>
    ELSE [i \in 1..Len(headings) |-> section_id(i, headings[i])]

\* An identifier without the version part.
document_id_without_version(page_id, current_version, part) ==
    page_id \o "_" \o part

\* Identifier of a published record.
document_id(page_id, current_version, part) ==
    page_id \o "_v" \o str(current_version) \o "_" \o part

\* The batch of process_page: the full-document record, then one per section.
build_documents(page_id, current_version, headings) ==
    LET ids == split_section_ids(headings)
    IN  <<document_id(page_id, current_version, "full")>>
        \o [i \in 1..Len(ids) |-> document_id(page_id, current_version, ids[i])]

(***************************************************************************)
(* The version gate.                                                       *)
(***************************************************************************)
\* Digit sequences compared as strings are: "9" > "10".
RECURSIVE lex_le(_, _)
lex_le(a, b) ==
    IF Len(a) = 0 THEN TRUE
    ELSE IF Len(b) = 0 THEN FALSE
    ELSE IF a[1] # b[1] THEN a[1] < b[1]
    ELSE lex_le(Tail(a), Tail(b))

\* The gate comparing the versions as text.
version_not_newer_lexicographic(current_version, cached_version) ==
    lex_le(json_number(current_version), json_number(cached_version))

\* The gate written with < in place of <=.
version_strictly_older(current_version, cached_version) ==
    current_version < cached_version

\* The gate written with == in place of <=.
version_equal_only(current_version, cached_version) ==
    current_version = cached_version

\* float(current_version) <= float(cached version): exact on these integers.
version_not_newer(current_version, cached_version) ==
    current_version <= cached_version

\* The branch of the decision table: TRUE when the invocation skips.
gate_skips(cached_data, force, current_version) ==
    /\ cached_data # None
    /\ ~force
    /\ version_not_newer(current_version, cached_data[1].version)

(***************************************************************************)
(* process_page.  Inputs of one invocation: whether the fetch returns, the *)
(* page it returns, whether the storage layer works in Cache.get and in    *)
(* Cache.set, and the stage that raises, if any: "extract" is              *)
(* _extract_metadata, "segment" anything between the status gate and the   *)
(* publish call (segmentation, markdown, summary, embedding), "publish"    *)
(* the transport call of index_documents.                                  *)
(***************************************************************************)
Stages == {"none", "extract", "segment", "publish"}

\* The input combinations, one per distinguishable run: an input the run
\* never reads (the page body after a failed fetch, Cache.set after a raise
\* or a status skip) is held at one value.
CallInputs ==
    {i \in [fetch_ok : BOOLEAN, page : FetchedPages, get_ok : BOOLEAN,
            raises : Stages, set_ok : BOOLEAN] :
        /\ ~i.fetch_ok =>
              /\ i.get_ok /\ i.set_ok /\ i.raises = "none"
              /\ i.page.status = "" /\ i.page.headings = <<>>
        /\ i.raises # "none" => i.set_ok
        /\ i.raises = "extract" => i.page.status = "" /\ i.page.headings = <<>>
        /\ i.page.status \in {"", "Rejected"} =>
              /\ i.set_ok /\ i.raises \in {"none", "extract"}
              /\ i.page.headings = <<>>}

NoCall ==
    [outcome |-> "none", raised |-> "none", page_id |-> "", version |-> 0,
     forced |-> FALSE, status |-> "", ret |-> TRUE, cached_before |-> 0,
     get_ok |-> TRUE, indexed |-> FALSE, posted |-> FALSE, documents |-> 0,
     upsert |-> FALSE]

\* What an invocation that published nothing did.
Call(outcome, raised, page_id, i, force, store, status, ret) ==
    [outcome |-> outcome, raised |-> raised, page_id |-> page_id,
     version |-> i.page.version, forced |-> force, status |-> status,
     ret |-> ret, cached_before |-> cached_version_of(store, page_id),
     get_ok |-> i.get_ok, indexed |-> FALSE, posted |-> FALSE,
     documents |-> 0, upsert |-> FALSE]

\* AzureSearchClient.index_documents(documents, "upload"): a dry run returns
\* before the transport call; otherwise the batch is POSTed, and an error
\* status or a transport error raises.
index_documents(documents, dry, transport_ok) ==
    IF dry THEN [raised |-> FALSE, posted |-> FALSE]
    ELSE IF transport_ok THEN [raised |-> FALSE, posted |-> TRUE]
    ELSE [raised |-> TRUE, posted |-> FALSE]

\* The tail of process_page with the cache written before the publish call.
cache_then_publish(store, page_id, documents, value, dry, transport_ok, set_ok) ==
    LET result == index_documents(documents, dry, transport_ok)
        written == cache_set(store, page_id, value, set_ok)
    IN  IF written.raised
        THEN [raised |-> "cache", indexed |-> FALSE, posted |-> FALSE,
              upsert |-> FALSE, store |-> written.store]
        ELSE IF result.raised
        THEN [raised |-> "publish", indexed |-> FALSE, posted |-> FALSE,
              upsert |-> written.ok, store |-> written.store]
        ELSE [raised |-> "none", indexed |-> TRUE, posted |-> result.posted,
              upsert |-> written.ok, store |-> written.store]

\* The tail of process_page: publish the batch, then upsert the cache record.
publish_and_cache(store, page_id, documents, value, dry, transport_ok, set_ok) ==
    LET result == index_documents(documents, dry, transport_ok)
        written == cache_set(store, page_id, value, set_ok)
    IN  IF result.raised
        THEN [raised |-> "publish", indexed |-> FALSE, posted |-> FALSE,
              upsert |-> FALSE, store |-> store]
        ELSE IF written.raised
        THEN [raised |-> "cache", indexed |-> TRUE, posted |-> result.posted,
              upsert |-> FALSE, store |-> written.store]
        ELSE [raised |-> "none", indexed |-> TRUE, posted |-> result.posted,
              upsert |-> written.ok, store |-> written.store]

\* An exception that reaches the except clause of process_page: logged, False.
Failed(raised, page_id, i, force, store, status) ==
    [store |-> store,
     call |-> Call("error", raised, page_id, i, force, store, status, FALSE)]

\* process_page with a status gate that records the version it stopped.
process_page_caching_status_skips(page_id, store, force, dry, i) ==
    LET current_version == i.page.version
        got == cache_get(store, page_id, i.get_ok)
        status == extract_status(i.page)
        documents == build_documents(page_id, current_version, i.page.headings)
        value == [version |-> current_version, document_count |-> Len(documents)]
        done == publish_and_cache(store, page_id, documents, value, dry,
                                  i.raises # "publish", i.set_ok)
    IN  IF ~i.fetch_ok THEN Failed("fetch", page_id, i, force, store, "")
        ELSE IF gate_skips(got.value, force, current_version)
        THEN [store |-> store,
              call |-> Call("skip", "none", page_id, i, force, store, "", TRUE)]
        ELSE IF i.raises = "extract"
        THEN Failed("extract", page_id, i, force, store, "")
        ELSE IF status_gate_skips(status)
        THEN [store |-> cache_set(store, page_id, [value EXCEPT !.document_count = 0],
                                  i.set_ok).store,
              call |-> Call("status_skip", "none", page_id, i, force, store, status, TRUE)]
        ELSE IF i.raises = "segment"
        THEN Failed("segment", page_id, i, force, store, status)
        ELSE IF done.raised # "none"
        THEN [store |-> done.store,
              call |-> [Call("error", done.raised, page_id, i, force, store, status, FALSE)
                        EXCEPT !.indexed = done.indexed, !.posted = done.posted]]
        ELSE [store |-> done.store,
              call |-> [Call("processed", "none", page_id, i, force, store, status, TRUE)
                        EXCEPT !.indexed = done.indexed,
                               !.posted = done.posted,
                               !.documents = Len(documents),
                               !.upsert = done.upsert]]

process_page(page_id, store, force, dry, i) ==
    LET current_version == i.page.version
        got == cache_get(store, page_id, i.get_ok)
        cached_data == got.value
        status == extract_status(i.page)
        documents == build_documents(page_id, current_version, i.page.headings)
        value == [version |-> current_version, document_count |-> Len(documents)]
        done == publish_and_cache(store, page_id, documents, value, dry,
                                  i.raises # "publish", i.set_ok)
    IN  IF ~i.fetch_ok THEN Failed("fetch", page_id, i, force, store, "")
        ELSE IF got.raised THEN Failed("cache", page_id, i, force, store, "")
        ELSE IF gate_skips(cached_data, force, current_version)
        THEN [store |-> store,
              call |-> Call("skip", "none", page_id, i, force, store, "", TRUE)]
        ELSE IF i.raises = "extract"
        THEN Failed("extract", page_id, i, force, store, "")
        ELSE IF status_gate_skips(status)
        THEN [store |-> store,
              call |-> Call("status_skip", "none", page_id, i, force, store, status, TRUE)]
        ELSE IF i.raises = "segment"
        THEN Failed("segment", page_id, i, force, store, status)
        ELSE IF done.raised # "none"
        THEN [store |-> done.store,
              call |-> [Call("error", done.raised, page_id, i, force, store, status, FALSE)
                        EXCEPT !.indexed = done.indexed, !.posted = done.posted]]
        ELSE [store |-> done.store,
              call |-> [Call("processed", "none", page_id, i, force, store, status, TRUE)
                        EXCEPT !.indexed = done.indexed,
                               !.posted = done.posted,
                               !.documents = Len(documents),
                               !.upsert = done.upsert]]

(***************************************************************************)
(* _extract_metadata on the tables of a page body.  A table is             *)
(* [control, mentions_id, rows]: whether its first cell reads "document"   *)
(* and "control", whether some string in it matches "Document ID", and its *)
(* rows; a row is [cells, label, value]: the number of cells and the text  *)
(* of the first two.                                                       *)
(***************************************************************************)
\* The label patterns, in the order of the if/elif chain.
LabelPatterns == <<"document_id", "version", "status", "created", "updated", "owner">>

\* Label texts and the patterns re.search finds in them.
LabelMatches ==
    [x \in {"Document ID", "Version", "Status", "Date Created", "Last Updated",
            "Author", "Status Version", "Reviewer"} |->
        CASE x = "Document ID" -> {"document_id"}
          [] x = "Version" -> {"version"}
          [] x = "Status" -> {"status"}
          [] x = "Date Created" -> {"created"}
          [] x = "Last Updated" -> {"updated"}
          [] x = "Author" -> {"owner"}
          [] x = "Status Version" -> {"version", "status"}
          [] OTHER -> {}]

Labels == DOMAIN LabelMatches
CellValues == {"Draft", "ABRD-HR-2025-1.0"}

\* Rows of two cells: every label with a value, the id, version and status
\* labels with a second value, an id row with an empty value cell; and a row
\* of one cell.
TableRows ==
    [cells : {2}, label : Labels, value : {"Draft"}]
    \cup [cells : {2}, label : {"Document ID", "Version", "Status"},
          value : {"ABRD-HR-2025-1.0"}]
    \cup {[cells |-> 2, label |-> "Document ID", value |-> ""],
          [cells |-> 1, label |-> "Status", value |-> "Draft"]}

\* The branch of the if/elif chain a label takes: the first pattern, in chain
\* order, that matches; "" when none does.
RECURSIVE first_pattern(_, _)
first_pattern(label, k) ==
    IF k > Len(LabelPatterns) THEN ""
    ELSE IF LabelPatterns[k] \in LabelMatches[label] THEN LabelPatterns[k]
    ELSE first_pattern(label, k + 1)

category(label) == first_pattern(label, 1)

\* A selection that takes the first table of the page, whatever it holds.
select_first_table(tables) ==
    IF Len(tables) = 0 THEN None ELSE Some(tables[1])

\* The table selection: the first table whose first cell reads "document
\* control", else the first with a string matching "Document ID", else none.
select_table(tables) ==
    LET controls == {k \in 1..Len(tables) : tables[k].control}
        mentions == {k \in 1..Len(tables) : tables[k].mentions_id}
        first(S) == CHOOSE k \in S : \A j \in S : k <= j
    IN  IF controls # {} THEN Some(tables[first(controls)])
        ELSE IF mentions # {} THEN Some(tables[first(mentions)])
        ELSE None

\* DocumentMetadata(): the dataclass defaults.
DocumentMetadata ==
    [document_id |-> "", document_type |-> "UNKNOWN", project_code |-> "",
     document_version |-> "", status |-> "", created_date |-> "",
     last_updated_date |-> "", document_owner |-> ""]

\* _parse_document_id on the cell values of the model: the type from the
\* prefix, the project code from the full pattern.
_parse_document_id(metadata, id_text) ==
    IF id_text = "ABRD-HR-2025-1.0"
    THEN [metadata EXCEPT !.document_type = "ABRD", !.project_code = "HR"]
    ELSE [metadata EXCEPT !.document_type = "UNKNOWN"]

\* The body of the row loop: rows of fewer than two cells are passed over,
\* and the branch taken assigns its field.
read_row(metadata, row) ==
    LET c == category(row.label)
    IN  IF row.cells < 2 THEN metadata
        ELSE CASE c = "document_id" ->
                    _parse_document_id([metadata EXCEPT !.document_id = row.value], row.value)
               [] c = "version" -> [metadata EXCEPT !.document_version = row.value]
               [] c = "status" -> [metadata EXCEPT !.status = row.value]
               [] c = "created" -> [metadata EXCEPT !.created_date = row.value]
               [] c = "updated" -> [metadata EXCEPT !.last_updated_date = row.value]
               [] c = "owner" -> [metadata EXCEPT !.document_owner = row.value]
               [] OTHER -> metadata

RECURSIVE read_rows(_, _, _)
read_rows(metadata, rows, k) ==
    IF k > Len(rows) THEN metadata
    ELSE read_rows(read_row(metadata, rows[k]), rows, k + 1)

\* "Set defaults if not found".
set_defaults(metadata, page) ==
    [metadata EXCEPT
        !.document_id = IF @ = "" THEN "DOC-" \o page.id ELSE @,
        !.document_version = IF @ = "" THEN str(page.version) ELSE @,
        !.status = IF @ = "" THEN "UNKNOWN" ELSE @,
        !.created_date = IF @ = "" THEN page.created ELSE @,
        !.last_updated_date = IF @ = "" THEN page.when ELSE @,
        !.document_owner = IF @ = "" THEN page.creator ELSE @]

_extract_metadata(page) ==
    LET metadata_table == select_table(page.tables)
    IN  set_defaults(IF metadata_table = None THEN DocumentMetadata
                     ELSE read_rows(DocumentMetadata, metadata_table[1].rows, 1),
                     page)

\* The row lists of a table: up to MaxRows rows.
RowLists == SeqsUpTo(TableRows, MaxRows)

\* A second table on the page, with rows of its own.
OtherTableRows == <<[cells |-> 2, label |-> "Status", value |-> "Draft"],
                    [cells |-> 2, label |-> "Document ID", value |-> "Draft"]>>

\* The table lists of a page body, around a table with the rows given.
TableLists(rows) ==
    {<<>>,
     <<[control |-> TRUE, mentions_id |-> TRUE, rows |-> rows]>>,
     <<[control |-> FALSE, mentions_id |-> FALSE, rows |-> rows]>>,
     <<[control |-> FALSE, mentions_id |-> TRUE, rows |-> OtherTableRows],
       [control |-> TRUE, mentions_id |-> FALSE, rows |-> rows]>>,
     <<[control |-> FALSE, mentions_id |-> FALSE, rows |-> OtherTableRows],
       [control |-> FALSE, mentions_id |-> TRUE, rows |-> rows]>>}

\* The fetched pages metadata extraction is exercised with.
MetadataPages ==
    {[id |-> "1001", version |-> LastVersion, created |-> "2024-01-01",
      when |-> "2024-02-02", creator |-> "Ann", tables |-> tables] :
        tables \in UNION {TableLists(rows) : rows \in RowLists}}

NoExtraction == [page |-> None, metadata |-> None]

(***************************************************************************)
(* _split_content_into_sections on the element tree of a page body.  The   *)
(* body is a sequence of nodes [kind, name, text, kids]: a heading "h"     *)
(* with its tag name, a paragraph "p" with its text, or a container "div"  *)
(* with child headings and paragraphs.  A text is a sequence of            *)
(* characters.                                                             *)
(***************************************************************************)
Chars(t) == {t[k] : k \in 1..Len(t)}

\* Paragraph texts: a requirement id, an id followed by a fourth digit, and
\* an id one digit short.
ParagraphTexts ==
    {<<"F", "R", "-", "A", "1", "-", "0", "0", "1">>,
     <<"X", "I", "N", "T", "-", "9", "-", "1", "2", "3", "4">>,
     <<"F", "R", "-", "A", "-", "0", "1", " ">>}

PlainText == <<"s", "e", "e">>

\* Children of a container: a heading and a paragraph, in either order, or
\* a paragraph alone.
KidLists ==
    {<<[kind |-> "p", name |-> "p", text |-> PlainText]>>,
     <<[kind |-> "h", name |-> "h2", text |-> <<>>],
       [kind |-> "p", name |-> "p", text |-> PlainText]>>,
     <<[kind |-> "p", name |-> "p", text |-> PlainText],
       [kind |-> "h", name |-> "h2", text |-> <<>>]>>}

\* Nodes of a body with containers, and of a flat body with texts.
TreeNodes ==
    {[kind |-> "h", name |-> "h2", text |-> <<>>, kids |-> <<>>],
     [kind |-> "p", name |-> "p", text |-> PlainText, kids |-> <<>>]}
    \cup {[kind |-> "div", name |-> "div", text |-> <<>>, kids |-> kids] :
             kids \in KidLists}

TextNodes ==
    {[kind |-> "h", name |-> "h2", text |-> <<>>, kids |-> <<>>]}
    \cup {[kind |-> "p", name |-> "p", text |-> t, kids |-> <<>>] : t \in ParagraphTexts}

\* Headings of several depths: "2 B" under h3, "1.1 A" under h1, "B " under
\* h6 and "7" under h2; and a paragraph.
TitledNodes ==
    {[kind |-> "h", name |-> "h3", text |-> <<"2", " ", "B">>, kids |-> <<>>],
     [kind |-> "h", name |-> "h1", text |-> <<"1", ".", "1", " ", "A">>, kids |-> <<>>],
     [kind |-> "h", name |-> "h6", text |-> <<"B", " ">>, kids |-> <<>>],
     [kind |-> "h", name |-> "h2", text |-> <<"7">>, kids |-> <<>>],
     [kind |-> "p", name |-> "p", text |-> PlainText, kids |-> <<>>]}

Bodies == SeqsUpTo(TreeNodes, MaxNodes) \cup SeqsUpTo(TextNodes, MaxNodes)
          \cup SeqsUpTo(TitledNodes, MaxNodes)

\* The headings and paragraphs below a node, in document order, each with
\* its path from the body.
elements_of(node, a) ==
    IF node.kind = "div"
    THEN [b \in 1..Len(node.kids) |->
             [path |-> <<a, b>>, kind |-> node.kids[b].kind,
              name |-> node.kids[b].name, text |-> node.kids[b].text]]
    ELSE <<[path |-> <<a>>, kind |-> node.kind, name |-> node.name, text |-> node.text]>>

RECURSIVE document_order(_, _)
document_order(body, a) ==
    IF a > Len(body) THEN <<>>
    ELSE elements_of(body[a], a) \o document_order(body, a + 1)

\* heading_level = int(heading_tag[1]).
heading_level(name) == CHOOSE n \in 1..6 : name = "h" \o str(n)

\* A search that returns the headings ordered by depth.
find_all_headings_by_level(body) ==
    SortSeq(SelectSeq(document_order(body, 1), LAMBDA e : e.kind = "h"),
            LAMBDA a, b : heading_level(a.name) < heading_level(b.name))

\* soup.find_all(["h1", ..., "h6"]): the headings, in document order.
find_all_headings(body) ==
    SelectSeq(document_order(body, 1), LAMBDA e : e.kind = "h")

\* The chain of heading.next_sibling: the nodes after the heading under the
\* same parent.
next_siblings(body, path) ==
    IF Len(path) = 1
    THEN [k \in 1..(Len(body) - path[1]) |-> body[path[1] + k]]
    ELSE LET kids == body[path[1]].kids
         IN  [k \in 1..(Len(kids) - path[2]) |->
                 [kind |-> kids[path[2] + k].kind, name |-> kids[path[2] + k].name,
                  text |-> kids[path[2] + k].text, kids |-> <<>>]]

\* Path of the k-th sibling after the heading at path.
sibling_path(path, k) ==
    IF Len(path) = 1 THEN <<path[1] + k>> ELSE <<path[1], path[2] + k>>

\* The paragraphs inside str(node): the node itself, or every paragraph
\* below a container.
paragraphs_in(node, path) ==
    IF node.kind = "div"
    THEN SelectSeq([b \in 1..Len(node.kids) |->
                       [path |-> path \o <<b>>, kind |-> node.kids[b].kind,
                        name |-> node.kids[b].name, text |-> node.kids[b].text]],
                   LAMBDA e : e.kind = "p")
    ELSE <<[path |-> path, kind |-> node.kind, name |-> node.name, text |-> node.text]>>

\* The while loop over the siblings: it ends at a sibling that is one of the
\* later headings; of the siblings passed, the elements that are not
\* headings are collected.
RECURSIVE content_elements(_, _, _, _)
content_elements(siblings, path, k, is_last) ==
    IF k > Len(siblings) THEN <<>>
    ELSE IF siblings[k].kind = "h"
    THEN IF is_last THEN content_elements(siblings, path, k + 1, is_last) ELSE <<>>
    ELSE paragraphs_in(siblings[k], sibling_path(path, k))
         \o content_elements(siblings, path, k + 1, is_last)

\* The text of the collected elements, markup between one and the next.
RECURSIVE joined_text(_)
joined_text(elements) ==
    IF Len(elements) = 0 THEN <<>>
    ELSE elements[1].text \o <<"|">> \o joined_text(Tail(elements))

Tags == {<<"F", "R">>, <<"P", "R">>, <<"S", "R">>, <<"U", "R">>, <<"R", "R">>,
         <<"C", "R">>, <<"B", "R">>, <<"I", "N", "T">>}
Digits == {"0", "1", "2", "3", "4", "5", "6", "7", "8", "9"}
UpperAlnum == Digits \cup {"A", "B", "C", "F", "I", "N", "P", "R", "S", "T", "U", "X"}

\* End of the run of [A-Z0-9] characters that starts at position p.
RECURSIVE run_end(_, _)
run_end(content, p) ==
    IF p <= Len(content) /\ content[p] \in UpperAlnum THEN run_end(content, p + 1) ELSE p

\* The pattern (FR|PR|SR|UR|RR|CR|BR|INT)-[A-Z0-9]+-\d{3} tried at position
\* p: the position after the match, 0 when there is none.
match_at(content, p) ==
    LET tag_ends == {p + Len(t) : t \in {u \in Tags : /\ p + Len(u) - 1 <= Len(content)
                                                      /\ SubSeq(content, p, p + Len(u) - 1) = u}}
    IN  IF tag_ends = {} THEN 0
        ELSE LET q == CHOOSE e \in tag_ends : TRUE
                 r == run_end(content, q + 1)
             IN  IF /\ q <= Len(content) /\ content[q] = "-"
                    /\ r > q + 1
                    /\ r + 3 <= Len(content) /\ content[r] = "-"
                    /\ \A d \in 1..3 : content[r + d] \in Digits
                 THEN r + 4
                 ELSE 0

\* re.findall(pattern, content) from position p on: the matches, left to
\* right, each search resuming where the previous match ended.
RECURSIVE findall(_, _)
findall(content, p) ==
    IF p > Len(content) THEN <<>>
    ELSE LET e == match_at(content, p)
         IN  IF e = 0 THEN findall(content, p + 1)
             ELSE <<SubSeq(content, p, e - 1)>> \o findall(content, e)

\* The characters of a text as a string.
RECURSIVE string_of(_)
string_of(text) == IF Len(text) = 0 THEN "" ELSE text[1] \o string_of(Tail(text))

\* str.strip() on the whitespace of the model, the space.
RECURSIVE strip(_)
strip(text) ==
    IF Len(text) = 0 THEN text
    ELSE IF text[1] = " " THEN strip(Tail(text))
    ELSE IF text[Len(text)] = " " THEN strip(SubSeq(text, 1, Len(text) - 1))
    ELSE text

\* End of the run of digits, and of spaces, that starts at position p.
RECURSIVE digits_end(_, _)
digits_end(text, p) ==
    IF p <= Len(text) /\ text[p] \in Digits THEN digits_end(text, p + 1) ELSE p

RECURSIVE spaces_end(_, _)
spaces_end(text, p) ==
    IF p <= Len(text) /\ text[p] = " " THEN spaces_end(text, p + 1) ELSE p

\* End of \d+(?:\.\d+)* tried at position p; p when no digit stands there.
RECURSIVE number_end(_, _)
number_end(text, p) ==
    LET q == digits_end(text, p)
    IN  IF q = p THEN p
        ELSE IF q <= Len(text) /\ text[q] = "." /\ digits_end(text, q + 1) > q + 1
        THEN number_end(text, q + 1)
        ELSE q

\* re.match(r"^(\d+(?:\.\d+)*)\s+(.+)$", heading_text): the two groups, or
\* None.  The number is followed by white space and at least one more
\* character; the white space is taken greedily, up to the last character.
number_match(heading_text) ==
    LET e == number_end(heading_text, 1)
        w == spaces_end(heading_text, e)
    IN  IF e > 1 /\ w > e /\ Len(heading_text) > e
        THEN Some([number |-> SubSeq(heading_text, 1, e - 1),
                   rest |-> SubSeq(heading_text, Min(w, Len(heading_text)),
                                   Len(heading_text))])
        ELSE None

\* The parts of a dotted number, as numbers.
RECURSIVE number_parts(_, _)
number_parts(number, p) ==
    IF p > Len(number) THEN <<>>
    ELSE <<parse_number([k \in 1..(digits_end(number, p) - p) |->
                            CHOOSE d \in 0..9 : DigitChars[d + 1] = number[p + k - 1]])>>
         \o number_parts(number, digits_end(number, p) + 1)

\* DocumentSection: heading is the position among the headings (0: the
\* synthetic section), content the paragraphs the section holds.
DocumentSection(heading, sid, title, level, section_number, content, requirement_ids) ==
    [heading |-> heading, section_id |-> sid, title |-> title, level |-> level,
     section_number |-> section_number, content |-> content,
     text |-> joined_text(content), requirement_ids |-> requirement_ids]

\* A synthetic section without title.
whole_document_untitled(body) ==
    DocumentSection(0, "section_1", "", 0, "",
                    SelectSeq(document_order(body, 1), LAMBDA e : e.kind = "p"), <<>>)

\* "No headings found, treat the whole document as one section".
whole_document(body) ==
    DocumentSection(0, "section_1", "Main Content", 1, "",
                    SelectSeq(document_order(body, 1), LAMBDA e : e.kind = "p"), <<>>)

_split_content_into_sections(body) ==
    LET headings == find_all_headings(body)
    IN  IF Len(headings) = 0
        THEN <<whole_document(body)>>
        ELSE [i \in 1..Len(headings) |->
                LET heading_text == strip(headings[i].text)
                    matched == number_match(heading_text)
                    section_number == IF matched # None THEN matched[1].number ELSE <<>>
                    title == IF matched # None THEN matched[1].rest ELSE heading_text
                    content == content_elements(next_siblings(body, headings[i].path),
                                                headings[i].path, 1, i = Len(headings))
                IN  DocumentSection(i,
                                    section_id(i, [number |-> number_parts(section_number, 1)]),
                                    string_of(title),
                                    heading_level(headings[i].name),
                                    string_of(section_number),
                                    content,
                                    findall(joined_text(content), 1))]

NoSegmentation == [body |-> None, sections |-> None]

(***************************************************************************)
(* The sink's answer to the POST of index_documents.  A response is        *)
(* [status_code, value]: the HTTP status (0: no response, the request      *)
(* itself failed) and the status of each record of the batch.  A record    *)
(* status is a number: the sink's boolean false counts as 0 in the         *)
(* comparison with 300.                                                    *)
(***************************************************************************)
AcceptedStatusCodes == {200, 201, 207}
StatusCodes == {0, 200, 207, 503}
RecordStatuses == {0, 201, 422}

\* The responses to a batch of n records.
Responses(n) == [status_code : StatusCodes, value : [1..n -> RecordStatuses]]

\* A client that raises when a record of an accepted batch failed.
post_documents_rejecting_record_errors(documents, response) ==
    [raised |-> \/ response.status_code \notin AcceptedStatusCodes
                \/ \E k \in 1..Len(response.value) : response.value[k] >= 300,
     errors |-> SelectSeq(response.value, LAMBDA st : st >= 300)]

\* index_documents from the POST on: a status outside 200/201/207 (or no
\* response) raises; record statuses of 300 and above are logged as a
\* warning and the result is returned.
post_documents(documents, response) ==
    IF response.status_code \notin AcceptedStatusCodes
    THEN [raised |-> TRUE, errors |-> <<>>]
    ELSE [raised |-> FALSE,
          errors |-> SelectSeq(response.value, LAMBDA st : st >= 300)]

\* The runs of process_page the sink is exercised with: a fetched, approved
\* page without headings, every collaborator but the sink working, the cache
\* write working or not.
SinkInputs ==
    {i \in CallInputs :
        /\ i.fetch_ok /\ i.get_ok /\ i.raises = "none"
        /\ i.page.version \in {FirstVersion, LastVersion}
        /\ i.page.status = "APPROVED" /\ i.page.headings = <<>>}

NoDelivery ==
    [dry |-> FALSE, set_ok |-> TRUE, status_code |-> 0, records |-> 0, errors |-> <<>>]

(***************************************************************************)
(* process_space: the pages of a space, one process_page call each.        *)
(***************************************************************************)
SpaceIds == {"1001", "1002", "1003"}

\* What get_pages_in_space can return: up to MaxPages distinct pages.
Listings ==
    {pages \in SeqsUpTo(SpaceIds, MaxPages) :
        \A a, b \in 1..Len(pages) : a # b => pages[a] # pages[b]}

\* The runs of process_page a space run is exercised with: a processed (or
\* version-skipped) page, a failed fetch, a failed publish call and a status
\* skip.
SpaceInputs ==
    {i \in CallInputs :
        /\ i.page.version = FirstVersion /\ i.get_ok /\ i.set_ok
        /\ i.page.headings = <<>>
        /\ i.page.status \in {"", "APPROVED", "Rejected"}
        /\ i.raises \in {"none", "publish"}
        /\ i.page.status = "" => ~i.fetch_ok}

NoRun ==
    [started |-> FALSE, raised |-> FALSE, pages |-> <<>>, attempted |-> <<>>,
     results |-> <<>>, success_count |-> 0, failure_count |-> 0]

\* A loop body that counts the successes only.
tally_successes_only(run, page_id, ret) ==
    [run EXCEPT !.attempted = Append(@, page_id),
                !.results = Append(@, ret),
                !.success_count = IF ret THEN @ + 1 ELSE @]

\* The body of the loop of process_space: one counter goes up by one.
tally(run, page_id, ret) ==
    [run EXCEPT !.attempted = Append(@, page_id),
                !.results = Append(@, ret),
                !.success_count = IF ret THEN @ + 1 ELSE @,
                !.failure_count = IF ret THEN @ ELSE @ + 1]

\* The loop of process_space from the k-th listed page on.
RECURSIVE space_loop(_, _, _, _, _, _, _)
space_loop(pages, inputs, k, store, force, dry, run) ==
    IF k > Len(pages) THEN [store |-> store, run |-> run]
    ELSE LET r == process_page(pages[k], store, force, dry, inputs[k])
         IN  space_loop(pages, inputs, k + 1, r.store, force, dry,
                        tally(run, pages[k], r.call.ret))

\* process_space: a failed listing propagates; otherwise every listed page
\* is handed to process_page and the two counters are returned.
process_space(listing_ok, pages, inputs, store, force, dry) ==
    IF ~listing_ok
    THEN [store |-> store, run |-> [NoRun EXCEPT !.started = TRUE, !.raised = TRUE]]
    ELSE space_loop(pages, inputs, 1, store, force, dry,
                    [NoRun EXCEPT !.started = TRUE, !.pages = pages])

(***************************************************************************)
(* process_page with its collaborators observed: what is handed to         *)
(* get_summary, to get_embedding and to index_documents, and the methods   *)
(* of Cache that are called.  A content unit is named by its part: "full"  *)
(* or a section id.                                                        *)
(***************************************************************************)
\* get_summary(markdown_content): the summary of the unit handed in.
get_summary(content) == "summary of " \o content

\* A batch in which one embedding, of the full document, serves every record.
enrich_documents_sharing_the_embedding(page_id, current_version, headings, with_summary, with_vectors) ==
    LET ids == split_section_ids(headings)
    IN  [documents |->
            <<[id |-> document_id(page_id, current_version, "full"),
               is_section |-> FALSE, section_id |-> "",
               summary |-> IF with_summary THEN get_summary("full") ELSE "",
               vectorized |-> with_vectors]>>
            \o [k \in 1..Len(ids) |->
                   [id |-> document_id(page_id, current_version, ids[k]),
                    is_section |-> TRUE, section_id |-> ids[k],
                    summary |-> "", vectorized |-> with_vectors]],
         summarizer |-> IF with_summary THEN <<"full">> ELSE <<>>,
         embedder |-> IF with_vectors THEN <<"full">> ELSE <<>>]

\* A batch of the section records alone.
enrich_documents_sections_only(page_id, current_version, headings, with_summary, with_vectors) ==
    LET ids == split_section_ids(headings)
    IN  [documents |->
            [k \in 1..Len(ids) |->
                [id |-> document_id(page_id, current_version, ids[k]),
                 is_section |-> TRUE, section_id |-> ids[k],
                 summary |-> "", vectorized |-> with_vectors]],
         summarizer |-> IF with_summary THEN <<"full">> ELSE <<>>,
         embedder |-> IF with_vectors THEN <<"full">> \o ids ELSE <<>>]

\* The records of process_page and the calls made while building them: the
\* summary and the embedding of the full document, then, per section, its
\* embedding and its record with summary "".
enrich_documents(page_id, current_version, headings, with_summary, with_vectors) ==
    LET ids == split_section_ids(headings)
    IN  [documents |->
            <<[id |-> document_id(page_id, current_version, "full"),
               is_section |-> FALSE, section_id |-> "",
               summary |-> IF with_summary THEN get_summary("full") ELSE "",
               vectorized |-> with_vectors]>>
            \o [k \in 1..Len(ids) |->
                   [id |-> document_id(page_id, current_version, ids[k]),
                    is_section |-> TRUE, section_id |-> ids[k],
                    summary |-> "", vectorized |-> with_vectors]],
         summarizer |-> IF with_summary THEN <<"full">> ELSE <<>>,
         embedder |-> IF with_vectors THEN <<"full">> \o ids ELSE <<>>]

\* The invocation before, when the status gate stopped it: the version it
\* was at, and whether the cache held a record of that version or a later
\* one.
NoPrevious == [status_skip |-> FALSE, version |-> 0, covered |-> FALSE]

NoTrace ==
    [fetched |-> None, summarizer |-> <<>>, embedder |-> <<>>, sink |-> <<>>,
     cache_calls |-> <<>>, previous |-> NoPrevious]

\* The runs of process_page that are traced: the first and the last
\* version, a page without status row, an approved and a rejected one, a
\* working Cache.set, and no exception between the status gate and the
\* publish call (how far the enrichment got when one is raised there is not
\* determined).
TraceInputs ==
    {i \in CallInputs :
        /\ i.page.version \in {FirstVersion, LastVersion}
        /\ i.page.status # "Draft"
        /\ i.raises \in {"none", "publish"}
        /\ i.set_ok}

\* process_page(page_id) with the calls it makes: Cache.get is called once
\* the page is fetched; the enrichment and the publish call follow when
\* neither gate stops the invocation; Cache.set follows a publish call that
\* returned.
process_page_traced(page_id, store, force, dry, with_summary, with_vectors, i) ==
    LET r == process_page(page_id, store, force, dry, i)
        enriched == enrich_documents(page_id, i.page.version, i.page.headings,
                                     with_summary, with_vectors)
        consulted == r.call.raised # "fetch"
        built == r.call.outcome = "processed" \/ r.call.raised = "publish"
        stored == r.call.outcome = "processed"
    IN  [store |-> r.store,
         call |-> r.call,
         trace |-> [fetched |-> IF i.fetch_ok THEN Some(i.page) ELSE None,
                    summarizer |-> IF built THEN enriched.summarizer ELSE <<>>,
                    embedder |-> IF built THEN enriched.embedder ELSE <<>>,
                    sink |-> IF built
                             THEN <<[action |-> "upload",
                                     documents |-> enriched.documents]>>
                             ELSE <<>>,
                    cache_calls |-> (IF consulted THEN <<"get">> ELSE <<>>)
                                    \o (IF stored THEN <<"set">> ELSE <<>>),
                    previous |-> NoPrevious]]

(***************************************************************************)
(* main() --process-all: the enabled pages of the page registry            *)
(* (config/pages.json, read by PageConfig), one process_page call each.    *)
(***************************************************************************)
\* An entry of "pages": with "enabled" true or false, or without the key.
PageInfos ==
    {[name |-> "Requirements", enabled |-> TRUE],
     [name |-> "Requirements", enabled |-> FALSE],
     [name |-> "Requirements"]}

\* The orders in which the page ids appear in the file.
ConfigOrders == {<<"1001", "1002", "1003", "1004">>, <<"1003", "1001", "1004", "1002">>}

\* PageConfig.pages after load_config: the entries in file order, as
\* [page_id, info]; the keys of a JSON object are distinct.
Registries ==
    {[k \in 1..Len(infos) |-> [page_id |-> order[k], info |-> infos[k]]] :
        infos \in SeqsUpTo(PageInfos, MaxPages), order \in ConfigOrders}

\* PageConfig.get_all_page_ids: list(self.pages.keys()).
get_all_page_ids(pages) == [k \in 1..Len(pages) |-> pages[k].page_id]

\* PageConfig.get_page_info: self.pages.get(page_id).
get_page_info(pages, page_id) ==
    LET found == {k \in 1..Len(pages) : pages[k].page_id = page_id}
    IN  IF found = {} THEN None ELSE Some(pages[CHOOSE k \in found : TRUE].info)

\* A check that does not read the "enabled" key.
is_page_enabled_whenever_listed(pages, page_id) ==
    get_page_info(pages, page_id) # None

\* PageConfig.is_page_enabled: False for a missing (or empty) entry, else
\* page_info.get("enabled", True).
is_page_enabled(pages, page_id) ==
    LET page_info == get_page_info(pages, page_id)
    IN  IF page_info = None THEN FALSE
        ELSE IF DOMAIN page_info[1] = {} THEN FALSE
        ELSE IF "enabled" \in DOMAIN page_info[1] THEN page_info[1].enabled
        ELSE TRUE

\* The list comprehension of main(): the enabled ids, in registry order.
enabled_pages(pages) ==
    SelectSeq(get_all_page_ids(pages), LAMBDA page_id : is_page_enabled(pages, page_id))

\* The runs of process_page a --process-all run is exercised with: a
\* processed (or version-skipped) page and a failed fetch.
ConfigInputs ==
    {i \in SpaceInputs : i.raises = "none" /\ (i.page.status = "APPROVED" \/ ~i.fetch_ok)}

NoConfigRun ==
    [started |-> FALSE, registry |-> <<>>, attempted |-> <<>>, results |-> <<>>,
     success_count |-> 0, failure_count |-> 0]

\* The body of the loop of main(): one counter goes up by one.
count_result(run, page_id, ret) ==
    [run EXCEPT !.attempted = Append(@, page_id),
                !.results = Append(@, ret),
                !.success_count = IF ret THEN @ + 1 ELSE @,
                !.failure_count = IF ret THEN @ ELSE @ + 1]

\* The loop of main() over enabled_pages, from the k-th on.
RECURSIVE process_all_loop(_, _, _, _, _, _, _)
process_all_loop(enabled, inputs, k, store, force, dry, run) ==
    IF k > Len(enabled) THEN [store |-> store, run |-> run]
    ELSE LET r == process_page(enabled[k], store, force, dry, inputs[k])
         IN  process_all_loop(enabled, inputs, k + 1, r.store, force, dry,
                              count_result(run, enabled[k], r.call.ret))

\* main() with --process-all: with no enabled page it returns at once;
\* otherwise every enabled page is handed to process_page.
process_all(pages, inputs, store, force, dry) ==
    LET enabled == enabled_pages(pages)
        run == [NoConfigRun EXCEPT !.started = TRUE, !.registry = pages]
    IN  IF Len(enabled) = 0 THEN [store |-> store, run |-> run]
        ELSE process_all_loop(enabled, inputs, 1, store, force, dry, run)

(***************************************************************************)
(* Two pipeline instances inside process_page for the same page, on one    *)
(* cache database.  An instance is [pc, current_version, cached_data,      *)
(* published]: where it stands, the version it fetched, what its Cache.get *)
(* returned, and the version of the batch it handed to the sink (0: none). *)
(* Cache.get and Cache.set each run in one sqlite transaction.             *)
(***************************************************************************)
Workers == {1, 2}

Idle == [pc |-> "idle", current_version |-> 0, cached_data |-> None, published |-> 0]

\* The cache record process_page writes for a page without headings.
cache_record(page_id, current_version) ==
    [version |-> current_version,
     document_count |-> Len(build_documents(page_id, current_version, <<>>))]

(***************************************************************************)
(* Actions.                                                                *)
(***************************************************************************)
\* The processor as main() builds it, over an empty cache directory.
InitOrchestrator ==
    /\ force_reindex = FALSE
    /\ dry_run = FALSE
    /\ cache = <<>>
    /\ last = NoCall
    /\ sent = [k \in PageIds \X Versions |-> 0]
    /\ highest = [p \in PageIds |-> 0]
    /\ any_forced = FALSE
    /\ any_cache_fault = FALSE
    /\ batches = <<>>

\* A database file that does not exist yet: no table, no row.
InitCache ==
    /\ document_cache = {}
    /\ clock = 0
    /\ latest = [k \in CacheKeys |-> None]
    /\ op = NoOp

\* No process_space run yet.
InitSpace == space_run = NoRun

\* Summarization and vectorization off, no invocation traced, no
\* --process-all run, no pipeline instance started.
InitRun ==
    /\ summarize = FALSE
    /\ vectorize = FALSE
    /\ trace = NoTrace
    /\ config_run = NoConfigRun
    /\ workers = [w \in Workers |-> Idle]

Init ==
    /\ InitOrchestrator
    /\ InitCache
    /\ InitSpace
    /\ InitRun
    /\ extraction = NoExtraction
    /\ segmentation = NoSegmentation
    /\ delivery = NoDelivery

\* main(): the clients and the processor are built from the command line.
Construct(force, dry) ==
    /\ force_reindex' = force
    /\ dry_run' = dry
    /\ UNCHANGED <<cache, last, sent, highest, any_forced, any_cache_fault, batches>>
    /\ UNCHANGED <<cacheVars, unitVars, runVars>>

\* One invocation of DocumentProcessor.process_page(page_id), recorded.
ProcessPage(page_id) ==
    \E i \in CallInputs :
        \E r \in {process_page(page_id, cache, force_reindex, dry_run, i)} :
            /\ cache' = r.store
            /\ last' = r.call
            /\ UNCHANGED <<force_reindex, dry_run, sent, highest, any_forced,
                           any_cache_fault, batches>>
            /\ UNCHANGED <<cacheVars, unitVars, runVars>>

Next ==
    \/ \E force \in BOOLEAN, dry \in BOOLEAN : Construct(force, dry)
    \/ \E page_id \in PageIds : ProcessPage(page_id)

Spec == Init /\ [][Next]_vars

\* One invocation of DocumentProcessor.process_page(page_id), counted.
ProcessPageCounted(page_id) ==
    \E i \in CallInputs :
        \E r \in {process_page(page_id, cache, force_reindex, dry_run, i)} :
            /\ cache' = r.store
            /\ sent' = IF r.call.posted
                       THEN [sent EXCEPT ![<<page_id, r.call.version>>] = Min(@ + 1, MaxSent)]
                       ELSE sent
            /\ highest' = IF r.call.outcome = "processed"
                          THEN [highest EXCEPT ![page_id] = Max(@, r.call.version)]
                          ELSE highest
            /\ any_forced' = (any_forced \/ force_reindex)
            /\ any_cache_fault' = (any_cache_fault \/ ~i.get_ok \/ ~i.set_ok)
            /\ UNCHANGED <<force_reindex, dry_run, last, batches>>
            /\ UNCHANGED <<cacheVars, unitVars, runVars>>

NextHistory ==
    \/ \E force \in BOOLEAN, dry \in BOOLEAN : Construct(force, dry)
    \/ \E page_id \in PageIds : ProcessPageCounted(page_id)

SpecHistory == Init /\ [][NextHistory]_vars

\* The record-building part of process_page, applied to a fetched page.
BuildDocuments(page_id, current_version, headings) ==
    /\ batches' = <<[page_id |-> page_id, version |-> current_version,
                     headings |-> headings,
                     documents |-> build_documents(page_id, current_version, headings)]>>
                  \o (IF batches = <<>> THEN <<>> ELSE <<batches[1]>>)
    /\ UNCHANGED <<force_reindex, dry_run, cache, last, sent, highest,
                   any_forced, any_cache_fault>>
    /\ UNCHANGED <<cacheVars, unitVars, runVars>>

NextDocs ==
    \E page_id \in PageIds, current_version \in Versions, headings \in Markups :
        BuildDocuments(page_id, current_version, headings)

SpecDocs == Init /\ [][NextDocs]_vars

\* One cache operation: what was called, on which key, and what came back.
Operation(name, key, storage_ok, table, r) ==
    [name |-> name, key |-> key, storage_ok |-> storage_ok,
     existed |-> select_where(table, key) # {},
     raised |-> r.raised, result |-> r.result]

\* Cache(cache_dir): the constructor runs _init_db.
OpenCache(storage_ok) ==
    \E r \in {_init_db(document_cache, storage_ok)} :
        /\ document_cache' = r.table
        /\ op' = Operation("_init_db", "", storage_ok, document_cache, r)
        /\ UNCHANGED <<clock, latest>>
        /\ UNCHANGED <<orchestratorVars, unitVars, runVars>>

Get(key, storage_ok) ==
    \E r \in {get(document_cache, key, clock, storage_ok)} :
        /\ document_cache' = r.table
        /\ op' = Operation("get", key, storage_ok, document_cache, r)
        /\ UNCHANGED <<clock, latest>>
        /\ UNCHANGED <<orchestratorVars, unitVars, runVars>>

Set(key, value, storage_ok) ==
    \E r \in {set(document_cache, key, value, clock, storage_ok)} :
        /\ document_cache' = r.table
        /\ latest' = IF r.result THEN [latest EXCEPT ![key] = Some(value)] ELSE latest
        /\ op' = Operation("set", key, storage_ok, document_cache, r)
        /\ UNCHANGED clock
        /\ UNCHANGED <<orchestratorVars, unitVars, runVars>>

Delete(key, storage_ok) ==
    \E r \in {delete(document_cache, key, storage_ok)} :
        /\ document_cache' = r.table
        /\ latest' = IF r.result THEN [latest EXCEPT ![key] = None] ELSE latest
        /\ op' = Operation("delete", key, storage_ok, document_cache, r)
        /\ UNCHANGED clock
        /\ UNCHANGED <<orchestratorVars, unitVars, runVars>>

Clear(storage_ok) ==
    \E r \in {clear(document_cache, storage_ok)} :
        /\ document_cache' = r.table
        /\ latest' = IF storage_ok THEN [k \in CacheKeys |-> None] ELSE latest
        /\ op' = Operation("clear", "", storage_ok, document_cache, r)
        /\ UNCHANGED clock
        /\ UNCHANGED <<orchestratorVars, unitVars, runVars>>

GetKeys(storage_ok) ==
    \E r \in {get_keys(document_cache, storage_ok)} :
        /\ document_cache' = r.table
        /\ op' = Operation("get_keys", "", storage_ok, document_cache, r)
        /\ UNCHANGED <<clock, latest>>
        /\ UNCHANGED <<orchestratorVars, unitVars, runVars>>

GetStats(storage_ok) ==
    \E r \in {get_stats(document_cache, storage_ok)} :
        /\ document_cache' = r.table
        /\ op' = Operation("get_stats", "", storage_ok, document_cache, r)
        /\ UNCHANGED <<clock, latest>>
        /\ UNCHANGED <<orchestratorVars, unitVars, runVars>>

\* main() run with --cache-status.
CacheStatus(storage_ok) ==
    \E r \in {cache_status(document_cache, storage_ok)} :
        /\ document_cache' = r.table
        /\ op' = Operation("cache_status", "", storage_ok, document_cache, r)
        /\ UNCHANGED <<clock, latest>>
        /\ UNCHANGED <<orchestratorVars, unitVars, runVars>>

\* Time passes between two operations.
Tick ==
    /\ clock < MaxClock
    /\ clock' = clock + 1
    /\ UNCHANGED <<document_cache, latest, op>>
    /\ UNCHANGED <<orchestratorVars, unitVars, runVars>>

NextCache ==
    \/ \E storage_ok \in BOOLEAN : OpenCache(storage_ok)
    \/ \E key \in CacheKeys, storage_ok \in BOOLEAN : Get(key, storage_ok)
    \/ \E key \in CacheKeys, value \in CacheValues, storage_ok \in BOOLEAN :
          Set(key, value, storage_ok)
    \/ \E key \in CacheKeys, storage_ok \in BOOLEAN : Delete(key, storage_ok)
    \/ \E storage_ok \in BOOLEAN : Clear(storage_ok)
    \/ \E storage_ok \in BOOLEAN : GetKeys(storage_ok)
    \/ \E storage_ok \in BOOLEAN : GetStats(storage_ok)
    \/ \E storage_ok \in BOOLEAN : CacheStatus(storage_ok)
    \/ Tick

SpecCache == Init /\ [][NextCache]_vars

\* One run of DocumentProcessor.process_space(space_key).
ProcessSpace(listing_ok, pages) ==
    \E inputs \in [1..Len(pages) -> SpaceInputs] :
        \E r \in {process_space(listing_ok, pages, inputs, cache, force_reindex, dry_run)} :
            /\ cache' = r.store
            /\ space_run' = r.run
            /\ UNCHANGED <<force_reindex, dry_run, last, sent, highest, any_forced,
                           any_cache_fault, batches>>
            /\ UNCHANGED <<cacheVars, extraction, segmentation, delivery, runVars>>

NextSpace ==
    \/ \E pages \in Listings : ProcessSpace(TRUE, pages)
    \/ ProcessSpace(FALSE, <<>>)

SpecSpace == Init /\ [][NextSpace]_vars

\* A page comes back from the wiki.
InitMeta ==
    /\ InitOrchestrator
    /\ InitCache
    /\ InitSpace
    /\ InitRun
    /\ \E page \in MetadataPages : extraction = [page |-> Some(page), metadata |-> None]
    /\ segmentation = NoSegmentation
    /\ delivery = NoDelivery

\* _extract_metadata(page) on the fetched page.
ExtractMetadata ==
    /\ extraction.page # None
    /\ extraction.metadata = None
    /\ extraction' = [extraction EXCEPT !.metadata = Some(_extract_metadata(extraction.page[1]))]
    /\ UNCHANGED <<orchestratorVars, cacheVars, space_run, segmentation, delivery, runVars>>

NextMeta == ExtractMetadata

SpecMeta == InitMeta /\ [][NextMeta]_vars

\* The body of a fetched page.
InitSegments ==
    /\ InitOrchestrator
    /\ InitCache
    /\ InitSpace
    /\ InitRun
    /\ extraction = NoExtraction
    /\ \E body \in Bodies : segmentation = [body |-> Some(body), sections |-> None]
    /\ delivery = NoDelivery

\* _split_content_into_sections(html_content, metadata) on the body.
SplitContent ==
    /\ segmentation.body # None
    /\ segmentation.sections = None
    /\ segmentation' = [segmentation EXCEPT
                           !.sections = Some(_split_content_into_sections(segmentation.body[1]))]
    /\ UNCHANGED <<orchestratorVars, cacheVars, space_run, extraction, delivery, runVars>>

NextSegments == SplitContent

SpecSegments == InitSegments /\ [][NextSegments]_vars

\* One invocation of process_page(page_id) in which the sink answers the
\* publish call with the response given.
ProcessPageAnswered(page_id) ==
    \E i \in SinkInputs :
        \E response \in Responses(Len(build_documents(page_id, i.page.version, i.page.headings))) :
            \E posted \in {post_documents(build_documents(page_id, i.page.version,
                                                          i.page.headings), response)} :
                \E r \in {process_page(page_id, cache, force_reindex, dry_run,
                                       [i EXCEPT !.raises = IF posted.raised THEN "publish"
                                                            ELSE "none"])} :
                    /\ cache' = r.store
                    /\ last' = r.call
                    /\ delivery' = [dry |-> dry_run, set_ok |-> i.set_ok,
                                    status_code |-> response.status_code,
                                    records |-> Len(response.value),
                                    errors |-> posted.errors]
                    /\ UNCHANGED <<force_reindex, dry_run, sent, highest, any_forced,
                                   any_cache_fault, batches>>
                    /\ UNCHANGED <<cacheVars, space_run, extraction, segmentation, runVars>>

NextSink ==
    \/ \E force \in BOOLEAN, dry \in BOOLEAN : Construct(force, dry)
    \/ \E page_id \in PageIds : ProcessPageAnswered(page_id)

SpecSink == Init /\ [][NextSink]_vars

\* main(): the processor is built with the summarization and vectorization
\* settings of the configuration.
Configure(with_summary, with_vectors) ==
    /\ summarize' = with_summary
    /\ vectorize' = with_vectors
    /\ UNCHANGED <<orchestratorVars, cacheVars, unitVars, trace, config_run, workers>>

\* One invocation of process_page(page_id) with its collaborators observed.
ProcessPageTraced(page_id) ==
    \E i \in TraceInputs :
        \E r \in {process_page_traced(page_id, cache, force_reindex, dry_run,
                                      summarize, vectorize, i)} :
            /\ cache' = r.store
            /\ last' = r.call
            /\ trace' = [r.trace EXCEPT
                             !.previous =
                                 IF last.outcome = "status_skip"
                                 THEN [status_skip |-> TRUE, version |-> last.version,
                                       covered |-> last.cached_before >= last.version]
                                 ELSE NoPrevious]
            /\ UNCHANGED <<force_reindex, dry_run, sent, highest, any_forced,
                           any_cache_fault, batches>>
            /\ UNCHANGED <<cacheVars, unitVars, summarize, vectorize, config_run,
                           workers>>

NextTrace ==
    \/ \E force \in BOOLEAN : Construct(force, FALSE)
    \/ \E with_summary \in BOOLEAN, with_vectors \in BOOLEAN :
          Configure(with_summary, with_vectors)
    \/ \E page_id \in PageIds : ProcessPageTraced(page_id)

SpecTrace == Init /\ [][NextTrace]_vars

\* One run of main() with --process-all over the registry given.
ProcessAll(pages) ==
    \E inputs \in [1..Len(enabled_pages(pages)) -> ConfigInputs] :
        \E r \in {process_all(pages, inputs, cache, force_reindex, dry_run)} :
            /\ cache' = r.store
            /\ config_run' = r.run
            /\ UNCHANGED <<force_reindex, dry_run, last, sent, highest, any_forced,
                           any_cache_fault, batches>>
            /\ UNCHANGED <<cacheVars, unitVars, summarize, vectorize, trace, workers>>

NextConfig == \E pages \in Registries : ProcessAll(pages)

SpecConfig == Init /\ [][NextConfig]_vars

\* confluence_client.get_page_by_id: the instance learns the current version.
FetchPage(w, current_version) ==
    /\ workers[w].pc = "idle"
    /\ workers' = [workers EXCEPT ![w] = [@ EXCEPT !.pc = "fetched",
                                                   !.current_version = current_version]]
    /\ UNCHANGED <<orchestratorVars, cacheVars, unitVars, summarize, vectorize, trace,
                   config_run>>

\* self.cache.get(base_page_key) and the version gate on what it returned.
ReadCache(w, page_id) ==
    /\ workers[w].pc = "fetched"
    /\ \E r \in {get(document_cache, page_id, clock, TRUE)} :
          /\ document_cache' = r.table
          /\ workers' = [workers EXCEPT ![w] =
                 [@ EXCEPT !.cached_data = r.result,
                           !.pc = IF gate_skips(r.result, force_reindex,
                                                workers[w].current_version)
                                  THEN "skipped" ELSE "processing"]]
    /\ UNCHANGED <<orchestratorVars, clock, latest, op, unitVars, summarize, vectorize,
                   trace, config_run>>

\* Extraction, segmentation and index_documents of the fetched version.
PublishBatch(w) ==
    /\ workers[w].pc = "processing"
    /\ workers' = [workers EXCEPT ![w] = [@ EXCEPT !.pc = "published",
                                                   !.published = workers[w].current_version]]
    /\ UNCHANGED <<orchestratorVars, cacheVars, unitVars, summarize, vectorize, trace,
                   config_run>>

\* self.cache.set(base_page_key, {...}) with the fetched version.
WriteCache(w, page_id) ==
    /\ workers[w].pc = "published"
    /\ \E r \in {set(document_cache, page_id,
                     cache_record(page_id, workers[w].current_version), clock, TRUE)} :
          document_cache' = r.table
    /\ workers' = [workers EXCEPT ![w] = [@ EXCEPT !.pc = "done"]]
    /\ UNCHANGED <<orchestratorVars, clock, latest, op, unitVars, summarize, vectorize,
                   trace, config_run>>

NextConcurrent ==
    \E w \in Workers :
        \/ \E current_version \in Versions : FetchPage(w, current_version)
        \/ \E page_id \in PageIds : ReadCache(w, page_id)
        \/ PublishBatch(w)
        \/ \E page_id \in PageIds : WriteCache(w, page_id)

SpecConcurrent == Init /\ [][NextConcurrent]_vars

(***************************************************************************)
(* Properties.                                                             *)
(***************************************************************************)
\* A step of Spec that is an invocation of process_page: Construct is the
\* only action that changes the processor's settings, and it changes
\* nothing else.
CallStep == force_reindex' = force_reindex /\ dry_run' = dry_run

\* The invocation got past the fetch, to the version gate.
ReachedGate(c) == c.outcome # "none" /\ c.raised # "fetch"

PassingStatuses == {"DRAFT", "APPROVED"}

\* C1: idempotence.  When an invocation has processed a page version
\* (batch handed to the sink, cache upserted) and the next invocation is for
\* the same page at the same version, not forced, with the fetch and the
\* cache read working, that next invocation is a skip returning success: it
\* hands nothing to the sink and writes nothing to the cache, so the two
\* together made one publish call and one upsert.
C1_SecondInvocationSkips ==
    [][(/\ CallStep
        /\ last.outcome = "processed" /\ last.upsert
        /\ last'.page_id = last.page_id /\ last'.version = last.version
        /\ ~last'.forced /\ last'.raised # "fetch" /\ last'.get_ok)
       => (/\ last.indexed
           /\ last'.outcome = "skip" /\ last'.ret
           /\ ~last'.indexed /\ ~last'.posted /\ ~last'.upsert
           /\ cache' = cache)]_vars

\* A skip of exactly the cached version, returning success.
C1_Witness ==
    /\ last.outcome = "skip" /\ last.ret /\ ~last.forced
    /\ last.cached_before = last.version
    /\ cached_version_of(cache, last.page_id) = last.version

\* C2: monotonic gating.  After an invocation that processed and cached a
\* version, a non-forced invocation of the same page at a lower version
\* (fetch and cache read working) is skipped: no publish call, no upsert,
\* and the cached version stays the higher one.
C2_OlderVersionSkipped ==
    [][(/\ CallStep
        /\ last.outcome = "processed" /\ last.upsert
        /\ last'.page_id = last.page_id /\ last'.version < last.version
        /\ ~last'.forced /\ last'.raised # "fetch" /\ last'.get_ok)
       => (/\ last'.outcome = "skip" /\ last'.ret
           /\ ~last'.indexed /\ ~last'.posted /\ ~last'.upsert
           /\ cache' = cache
           /\ cached_version_of(cache', last'.page_id) = last.version)]_vars

\* A skipped middle version: lower than the cached one, higher than the first.
C2_Witness ==
    /\ last.outcome = "skip" /\ ~last.forced
    /\ FirstVersion < last.version /\ last.version < last.cached_before
    /\ cached_version_of(cache, last.page_id) = last.cached_before

C5_GateDecision ==
    ReachedGate(last) =>
        /\ (last.outcome = "skip") <=>
              (/\ last.get_ok /\ last.cached_before # 0
               /\ ~last.forced
               /\ last.version <= last.cached_before)
        /\ last.outcome = "skip" =>
              /\ last.ret /\ last.status = ""
              /\ ~last.indexed /\ ~last.posted /\ ~last.upsert
              /\ cached_version_of(cache, last.page_id) = last.cached_before

\* A skip where the text order of the versions is the reverse of the numeric.
C5_Witness ==
    /\ last.outcome = "skip"
    /\ last.version < last.cached_before
    /\ ~lex_le(json_number(last.version), json_number(last.cached_before))

\* C6: the status gate.  An invocation whose extracted status, upper-cased,
\* is neither DRAFT nor APPROVED publishes nothing, leaves the cache as it
\* was and returns success.
C6_StatusGate ==
    [][(/\ CallStep
        /\ last'.status # "" /\ upper(last'.status) \notin PassingStatuses)
       => (/\ last'.outcome = "status_skip" /\ last'.ret
           /\ ~last'.indexed /\ ~last'.posted /\ last'.documents = 0
           /\ ~last'.upsert /\ cache' = cache)]_vars

\* A rejected page, gated although its version is new to the cache.
C6_Witness ==
    /\ last.outcome = "status_skip" /\ last.status = "Rejected" /\ last.ret
    /\ last.cached_before < last.version
    /\ cached_version_of(cache, last.page_id) = last.cached_before

Ids(b) == {b.documents[k] : k \in 1..Len(b.documents)}

\* C7: the identifiers of two batches of one page built at two different
\* versions are disjoint.
C7_VersionsDisjoint ==
    (/\ Len(batches) = 2
     /\ batches[1].page_id = batches[2].page_id
     /\ batches[1].version # batches[2].version)
    => Ids(batches[1]) \cap Ids(batches[2]) = {}

\* The same headings built at two versions.
C7_Witness ==
    /\ Len(batches) = 2
    /\ batches[1].page_id = batches[2].page_id
    /\ batches[1].version # batches[2].version
    /\ batches[1].headings = batches[2].headings
    /\ Len(batches[1].headings) = MaxHeadings

\* C8: within a batch the full-document record and the section records have
\* pairwise distinct identifiers.
C8_DistinctWithinBatch ==
    \A k \in 1..Len(batches) :
        Cardinality(Ids(batches[k])) = Len(batches[k].documents)

\* C9: the cache is written only by an invocation whose publish call
\* returned; an invocation that raises returns failure and leaves the cache
\* as it was; and after a failed invocation of a version the cache did not
\* already cover, the next invocation of that page at that version is not
\* skipped.
C9_CacheOnlyAfterPublish ==
    [][CallStep =>
        /\ last'.outcome = "error" =>
              ~last'.ret /\ ~last'.upsert /\ cache' = cache
        /\ cache' # cache =>
              last'.outcome = "processed" /\ last'.indexed /\ last'.upsert
        /\ (/\ last.outcome = "error" /\ last.cached_before < last.version
            /\ last'.page_id = last.page_id /\ last'.version = last.version
            /\ last'.raised # "fetch")
           => last'.outcome # "skip"]_vars

\* A publish call that raised on a version new to the cache.
C9_Witness ==
    /\ last.outcome = "error" /\ last.raised = "publish" /\ ~last.ret
    /\ last.cached_before < last.version
    /\ cached_version_of(cache, last.page_id) = last.cached_before

\* C10: an invocation whose Cache.get meets a storage error goes on as on a
\* cache miss: it never skips at the version gate, it fails only when a
\* stage raises, and with a passing status and no raise it publishes and
\* returns success.
C10_GetFailureIsMiss ==
    (ReachedGate(last) /\ ~last.get_ok) =>
        /\ last.outcome \in {"processed", "status_skip", "error"}
        /\ last.ret <=> last.outcome # "error"
        /\ last.outcome = "error" => last.raised \in {"extract", "segment", "publish"}
        /\ last.outcome = "processed" =>
              last.indexed /\ last.documents > 0
        /\ (last.raised = "none" /\ upper(last.status) \in PassingStatuses) =>
              last.outcome = "processed"

\* A version the cache already covered, published because Cache.get failed.
C10_Witness ==
    /\ ~last.get_ok /\ ~last.forced
    /\ last.outcome = "processed" /\ last.indexed /\ last.ret
    /\ last.cached_before >= last.version

\* A step of SpecCache that is a cache operation: Tick is the only action
\* that changes the clock, and it changes nothing else.
OperationStep == clock' = clock

\* The rows stored under the other keys.
OtherRows(table, key) == {r \in table : r.key # key}

\* C11: every cache operation that meets a storage error returns normally,
\* with a benign negative result, and the stats it returns carry the keys
\* its caller reads.
C11_ErrorsAbsorbed ==
    ~op.storage_ok =>
        /\ ~op.raised
        /\ op.name = "get" => op.result = None
        /\ op.name \in {"set", "delete"} => op.result = FALSE
        /\ op.name = "clear" => op.result = 0
        /\ op.name = "get_keys" => op.result = {}
        /\ op.name = "get_stats" => StatsKeysRead \subseteq DOMAIN op.result

\* C13: Cache.get on an absent key returns None and leaves the table as it
\* was; on a present key it returns the stored record and changes nothing
\* but that row's last_accessed, which becomes the current timestamp.
C13_GetFrame ==
    [][(OperationStep /\ op'.name = "get" /\ op'.storage_ok) =>
        LET before == select_where(document_cache, op'.key)
            after == select_where(document_cache', op'.key)
        IN  /\ ~op'.raised
            /\ before = {} =>
                  op'.result = None /\ document_cache' = document_cache
            /\ before # {} =>
                  /\ \E r \in before :
                        /\ op'.result = Some(json_loads(r.value))
                        /\ after = {[r EXCEPT !.last_accessed = clock]}
                  /\ OtherRows(document_cache', op'.key)
                        = OtherRows(document_cache, op'.key)]_vars

\* A hit on a row written earlier, with another key stored beside it.
C13_Witness ==
    /\ op.name = "get" /\ op.storage_ok /\ op.result # None
    /\ \E r \in select_where(document_cache, op.key) :
          r.created_at < r.last_accessed
    /\ OtherRows(document_cache, op.key) # {}

\* C14: after a successful Cache.set the table holds one row for the key,
\* the rows of the other keys are as before, and, however many sets went
\* before, Cache.get returns exactly the record of the most recent one.
C14_LastWriteWins ==
    [][/\ (OperationStep /\ op'.name = "set" /\ op'.result = TRUE) =>
              /\ Cardinality(select_where(document_cache', op'.key)) = 1
              /\ OtherRows(document_cache', op'.key)
                    = OtherRows(document_cache, op'.key)
       /\ \A k \in CacheKeys :
              latest'[k] # None =>
                  /\ Cardinality(select_where(document_cache', k)) = 1
                  /\ get(document_cache', k, clock', TRUE).result = latest'[k]]_vars

\* A set that replaced the record of a key by a different one, with another
\* key stored beside it.
C14_Witness ==
    /\ op.name = "set" /\ op.result = TRUE /\ op.existed
    /\ \E r \in select_where(document_cache, op.key) :
          /\ r.created_at > 0
          /\ json_loads(r.value).version = LastVersion
    /\ OtherRows(document_cache, op.key) # {}

\* C15: a successful Cache.delete removes the rows of its key and no other
\* (a get that follows returns None); a successful Cache.clear returns the
\* number of rows stored before the call and leaves no row and no key.
C15_DeleteAndClear ==
    [][/\ (OperationStep /\ op'.name = "delete" /\ op'.result = TRUE) =>
              /\ get(document_cache', op'.key, clock', TRUE).result = None
              /\ OtherRows(document_cache', op'.key)
                    = OtherRows(document_cache, op'.key)
       /\ (OperationStep /\ op'.name = "clear" /\ op'.storage_ok) =>
              /\ op'.result = Cardinality(document_cache)
              /\ document_cache' = {}
              /\ get_keys(document_cache', TRUE).result = {}]_vars

\* A delete of one of two stored keys.
C15_Witness ==
    /\ op.name = "delete" /\ op.result = TRUE /\ op.existed
    /\ select_where(document_cache, op.key) = {}
    /\ document_cache # {}

\* Number of entries of a sequence of results equal to ret.
CountOf(results, ret) == Cardinality({k \in 1..Len(results) : results[k] = ret})

\* C12: a process_space run whose listing succeeded called process_page
\* once per listed page, in listing order, whatever the earlier calls
\* returned, and its two counters add up to the number of listed pages,
\* each counting the calls that returned its value.
C12_EveryPageAttempted ==
    (space_run.started /\ ~space_run.raised) =>
        /\ space_run.attempted = space_run.pages
        /\ Len(space_run.results) = Len(space_run.pages)
        /\ space_run.success_count = CountOf(space_run.results, TRUE)
        /\ space_run.failure_count = CountOf(space_run.results, FALSE)
        /\ space_run.success_count + space_run.failure_count = Len(space_run.pages)

\* A run whose first page failed and whose last page succeeded.
C12_Witness ==
    /\ space_run.started /\ ~space_run.raised
    /\ Len(space_run.pages) = MaxPages
    /\ space_run.results[1] = FALSE
    /\ space_run.results[MaxPages] = TRUE
    /\ space_run.pages[MaxPages] \in DOMAIN cache

\* The field of DocumentMetadata a label pattern assigns.
FieldOf ==
    [c \in {"document_id", "version", "status", "created", "updated", "owner"} |->
        CASE c = "document_id" -> "document_id"
          [] c = "version" -> "document_version"
          [] c = "status" -> "status"
          [] c = "created" -> "created_date"
          [] c = "updated" -> "last_updated_date"
          [] c = "owner" -> "document_owner"]

\* The rows of the selected table that fall in a category, by position.
RowsIn(rows, c) ==
    {k \in 1..Len(rows) : rows[k].cells >= 2 /\ category(rows[k].label) = c}

\* C16: when rows of the selected table match a category, the field has the
\* value of the first of them.
C16_FirstMatchWins ==
    (extraction.metadata # None /\ select_table(extraction.page[1].tables) # None) =>
        LET rows == select_table(extraction.page[1].tables)[1].rows
        IN  \A c \in DOMAIN FieldOf :
                \A k \in RowsIn(rows, c) :
                    ((\A j \in RowsIn(rows, c) : k <= j) /\ rows[k].value # "")
                        => extraction.metadata[1][FieldOf[c]] = rows[k].value

\* No table of the page is a document-control table: none opens with
\* "document control", none mentions "Document ID".
NoControlTable(tables) ==
    \A k \in 1..Len(tables) : ~tables[k].control /\ ~tables[k].mentions_id

\* C17: for a page without a document-control table, the metadata are the
\* defaults: document_id "DOC-<page id>", type UNKNOWN, document_version the
\* page's revision number as text, status "UNKNOWN".
C17_DefaultSynthesis ==
    (extraction.metadata # None /\ NoControlTable(extraction.page[1].tables)) =>
        /\ extraction.metadata[1].document_id = "DOC-" \o extraction.page[1].id
        /\ extraction.metadata[1].document_type = "UNKNOWN"
        /\ extraction.metadata[1].document_version = str(extraction.page[1].version)
        /\ extraction.metadata[1].status = "UNKNOWN"

\* A page whose only table is not a control table, although it has a status
\* row and a version row.
C17_Witness ==
    /\ extraction.metadata # None
    /\ Len(extraction.page[1].tables) = 1
    /\ NoControlTable(extraction.page[1].tables)
    /\ RowsIn(extraction.page[1].tables[1].rows, "status") # {}
    /\ RowsIn(extraction.page[1].tables[1].rows, "version") # {}
    /\ extraction.metadata[1].document_version = "11"

\* Position of the element at a path in the document order of the body.
PositionOf(body, path) ==
    CHOOSE k \in 1..Len(document_order(body, 1)) : document_order(body, 1)[k].path = path

\* Paths of the paragraphs a section holds.
ContentPaths(section) == {section.content[k].path : k \in 1..Len(section.content)}

\* C18: the content of the section of a heading lies after that heading and
\* before the next heading in document order, whatever the nesting, and no
\* paragraph is in the content of two sections.
C18_BoundaryAtNextHeading ==
    (segmentation.sections # None /\ find_all_headings(segmentation.body[1]) # <<>>) =>
        LET body == segmentation.body[1]
            headings == find_all_headings(body)
            sections == segmentation.sections[1]
        IN  /\ \A i \in 1..Len(sections) :
                  \A path \in ContentPaths(sections[i]) :
                      /\ PositionOf(body, headings[i].path) < PositionOf(body, path)
                      /\ i < Len(headings) =>
                            PositionOf(body, path) < PositionOf(body, headings[i + 1].path)
            /\ \A i, j \in 1..Len(sections) :
                  i # j => ContentPaths(sections[i]) \cap ContentPaths(sections[j]) = {}

\* C19: the requirement_ids of every section are the matches of the
\* requirement pattern in its content, left to right, repeats kept.
C19_RequirementIdsOfContent ==
    segmentation.sections # None =>
        \A i \in 1..Len(segmentation.sections[1]) :
            segmentation.sections[1][i].requirement_ids
                = findall(segmentation.sections[1][i].text, 1)

\* The most recent invocation got as far as the POST of its batch.
Posted == last.outcome \in {"processed", "error"} /\ ~delivery.dry

\* C20: an invocation whose POST was answered with 200, 201 or 207 returns
\* success and upserts the cache record of its version, whatever the
\* statuses of the records in the response; an invocation fails at the
\* publish call only when the response status is another one or no
\* response came.
C20_RecordErrorsDoNotFail ==
    Posted =>
        /\ delivery.status_code \in AcceptedStatusCodes =>
              /\ last.outcome = "processed" /\ last.ret /\ last.posted
              /\ delivery.set_ok =>
                    /\ last.upsert
                    /\ cached_version_of(cache, last.page_id) = last.version
        /\ (last.outcome = "error" \/ ~last.ret) =>
              /\ last.raised = "publish"
              /\ delivery.status_code \notin AcceptedStatusCodes

\* A 207 answer in which one record failed and one was taken, on a version
\* new to the cache.
C20_Witness ==
    /\ Posted /\ delivery.status_code = 207
    /\ Len(delivery.errors) = 1 /\ delivery.records = 2
    /\ last.outcome = "processed" /\ last.ret /\ last.upsert
    /\ last.cached_before < last.version
    /\ cached_version_of(cache, last.page_id) = last.version

\* The ids of the registry entries that are enabled: "enabled" is true or
\* not given.
EnabledInRegistry(pages) ==
    get_all_page_ids(SelectSeq(pages,
        LAMBDA e : "enabled" \in DOMAIN e.info => e.info.enabled))

\* C21: a --process-all run called process_page once for every enabled
\* page of the registry, in registry order, and for no disabled page,
\* whatever the earlier calls returned; its two counters add up to the
\* number of enabled pages, each counting the calls that returned its value.
C21_EveryEnabledPageAttempted ==
    config_run.started =>
        /\ config_run.attempted = EnabledInRegistry(config_run.registry)
        /\ Len(config_run.results) = Len(config_run.attempted)
        /\ config_run.success_count = CountOf(config_run.results, TRUE)
        /\ config_run.failure_count = CountOf(config_run.results, FALSE)
        /\ config_run.success_count + config_run.failure_count
              = Len(EnabledInRegistry(config_run.registry))

\* A run over two enabled pages, the second enabled by default; the first
\* call failed and the second succeeded.
C21_Witness ==
    /\ config_run.started
    /\ Len(config_run.registry) = MaxPages
    /\ Len(config_run.attempted) = MaxPages
    /\ "enabled" \notin DOMAIN config_run.registry[MaxPages].info
    /\ config_run.results[1] = FALSE
    /\ config_run.results[MaxPages] = TRUE
    /\ config_run.attempted[MaxPages] \in DOMAIN cache

\* A step of SpecTrace that is an invocation of process_page: the other
\* actions change the processor's settings, and nothing else.
TracedStep ==
    /\ CallStep
    /\ summarize' = summarize /\ vectorize' = vectorize

\* The section ids the segmenter returns for the page the invocation fetched.
SectionsOf(t) == split_section_ids(t.fetched[1].headings)

\* C22: an invocation that processed its page made exactly one call to the
\* sink, with action "upload"; the batch has 1 + (number of sections)
\* records, the full-document record (is_section false) first, then one
\* record per section in section order; and the document_count of the cache
\* record it wrote is the size of that batch.
C22_OneUploadBatch ==
    last.outcome = "processed" =>
        /\ Len(trace.sink) = 1
        /\ trace.sink[1].action = "upload"
        /\ LET documents == trace.sink[1].documents
               ids == SectionsOf(trace)
           IN  /\ Len(documents) = 1 + Len(ids)
               /\ ~documents[1].is_section
               /\ \A k \in 1..Len(ids) :
                     /\ documents[k + 1].is_section
                     /\ documents[k + 1].section_id = ids[k]
               /\ last.upsert =>
                     json_loads(cache[last.page_id]).document_count = Len(documents)

\* A page of two headings: a batch of three records, counted in the cache.
C22_Witness ==
    /\ last.outcome = "processed" /\ last.upsert
    /\ Len(trace.fetched[1].headings) = 2
    /\ Len(trace.sink) = 1 /\ Len(trace.sink[1].documents) = 3
    /\ json_loads(cache[last.page_id]).document_count = 3

\* C23: an invocation that processed its page called the summarizer once,
\* on the full document, when summarization is on, and the embedder once
\* per content unit (the full document, then every section) when
\* vectorization is on; it called neither with the option off; and every
\* section record has an empty summary.
C23_EnrichmentGranularity ==
    [][(TracedStep /\ last'.outcome = "processed") =>
        LET ids == SectionsOf(trace')
            documents == trace'.sink[1].documents
        IN  /\ trace'.summarizer = IF summarize THEN <<"full">> ELSE <<>>
            /\ trace'.embedder = IF vectorize THEN <<"full">> \o ids ELSE <<>>
            /\ vectorize => Len(trace'.embedder) = 1 + Len(ids)
            /\ \A k \in 1..Len(documents) :
                  documents[k].is_section => documents[k].summary = ""]_vars

\* Both options on, a page of two headings: one summary, three embeddings.
C23_Witness ==
    /\ last.outcome = "processed"
    /\ Len(trace.fetched[1].headings) = 2
    /\ trace.summarizer = <<"full">>
    /\ Len(trace.embedder) = 3
    /\ trace.sink[1].documents[1].summary # ""
    /\ trace.sink[1].documents[1].vectorized

\* The row of the table that stores the record the cache holds for a key.
RowOf(store, key, created_at, last_accessed) ==
    [key |-> key, value |-> store[key], created_at |-> created_at,
     last_accessed |-> last_accessed]

Timestamps == 0..MaxClock

\* C27: an invocation that takes the skip branch of the version gate calls
\* neither the summarizer, nor the embedder, nor the sink; of the cache it
\* calls get alone, never set; the record of the page is as before, and in
\* the table the one thing its Cache.get changes is the last_accessed of
\* the page's row.
C27_SkipFrame ==
    [][(TracedStep /\ last'.outcome = "skip") =>
        /\ last'.ret /\ ~last'.indexed /\ ~last'.posted /\ ~last'.upsert
        /\ trace'.summarizer = <<>> /\ trace'.embedder = <<>> /\ trace'.sink = <<>>
        /\ trace'.cache_calls = <<"get">>
        /\ cache' = cache
        /\ \A created_at, last_accessed, now \in Timestamps :
              LET row == RowOf(cache, last'.page_id, created_at, last_accessed)
                  read == get({row}, last'.page_id, now, TRUE)
              IN  /\ read.result = Some(json_loads(cache[last'.page_id]))
                  /\ read.table = {[row EXCEPT !.last_accessed = now]}]_vars

\* A skip of a page fetched at the first version while the cache holds the
\* last, summarization and vectorization being on.
C27_Witness ==
    /\ last.outcome = "skip" /\ ~last.forced
    /\ summarize /\ vectorize
    /\ trace.fetched # None /\ trace.fetched[1].status = "APPROVED"
    /\ last.version = FirstVersion /\ last.cached_before = LastVersion
    /\ trace.cache_calls = <<"get">>
    /\ cached_version_of(cache, last.page_id) = LastVersion

\* C28: an invocation that fetched a page without a status in a control
\* table, and in which nothing raised, is stopped: by the status gate, with
\* the status "UNKNOWN", unless the version gate stopped it before on a
\* record the cache already held.  It returns success, makes no call to the
\* sink and no Cache.set, and the cache is as before: no record is created
\* for the page, at whatever version and whether forced or not.
C28_UnknownStatusNeverPublished ==
    [][(/\ TracedStep
        /\ trace'.fetched # None /\ trace'.fetched[1].status = ""
        /\ last'.raised = "none")
       => (/\ last'.outcome \in {"status_skip", "skip"}
           /\ last'.outcome = "skip" =>
                 (~last'.forced /\ last'.version <= last'.cached_before)
           /\ last'.outcome = "status_skip" => last'.status = "UNKNOWN"
           /\ last'.ret
           /\ ~last'.indexed /\ ~last'.posted /\ ~last'.upsert
           /\ trace'.sink = <<>>
           /\ trace'.cache_calls = <<"get">>
           /\ cache' = cache
           /\ (last'.page_id \notin DOMAIN cache) => (last'.page_id \notin DOMAIN cache'))]_vars

\* A page without status stopped by the status gate at the last version,
\* forced, with nothing in the cache afterwards.
C28_Witness ==
    /\ last.outcome = "status_skip" /\ last.status = "UNKNOWN" /\ last.ret
    /\ last.forced /\ last.version = LastVersion
    /\ trace.fetched # None /\ trace.fetched[1].status = ""
    /\ trace.sink = <<>>
    /\ last.page_id \notin DOMAIN cache

\* The invocation follows a status-gated skip of the same version, is not
\* forced, fetched a page whose status passes the status gate, and nothing
\* raised in it.
RetryAfterStatusSkip ==
    /\ TracedStep
    /\ last.outcome = "status_skip"
    /\ last'.page_id = last.page_id
    /\ trace'.fetched # None
    /\ trace'.fetched[1].version = last.version
    /\ upper(trace'.fetched[1].status) \in PassingStatuses
    /\ ~force_reindex
    /\ last'.raised = "none"

\* C29 as stated: a non-forced invocation that follows a status-gated skip
\* of the same version, with a status that now passes, processes and
\* publishes the page.
C29_StatusSkipNeverSuppresses ==
    [][RetryAfterStatusSkip =>
        (last'.outcome = "processed" /\ Len(trace'.sink) = 1)]_vars

\* C29, amended: a status-gated skip changes nothing in the cache; and when
\* the version it stopped was not covered by the cache (no record, or a
\* record of a lower version), the non-forced invocation that follows at
\* the same version, with a status that now passes, processes and publishes
\* the page.
C29_StatusSkipLeavesNoTrace ==
    [][/\ (TracedStep /\ last'.outcome = "status_skip") =>
              (cache' = cache /\ trace'.cache_calls = <<"get">>)
       /\ (RetryAfterStatusSkip /\ last.cached_before < last.version) =>
              (/\ last'.outcome = "processed" /\ Len(trace'.sink) = 1
               /\ last'.indexed
               /\ cached_version_of(cache', last'.page_id) = last'.version)]_vars

\* A page processed, not forced, right after the status gate stopped the
\* same version, which the cache did not cover.
C29_Witness ==
    /\ trace.previous.status_skip /\ ~trace.previous.covered
    /\ trace.previous.version = last.version
    /\ last.outcome = "processed" /\ ~last.forced /\ last.get_ok
    /\ Len(trace.sink) = 1
    /\ cached_version_of(cache, last.page_id) = last.version

\* C26: cache truthfulness.  Whenever the cache holds a record for a page
\* with a version, a batch whose identifiers embed that page and that
\* version was transmitted to the sink, dry-run mode included.
C26_CacheTruthful ==
    \A p \in PageIds :
        p \in DOMAIN cache => sent[<<p, cached_version_of(cache, p)>>] >= 1

\* The heading elements of a body, in document order.
HeadingElements(body) ==
    SelectSeq(document_order(body, 1), LAMBDA e : e.kind = "h")

\* Depth of a heading tag.
Depth == [name \in {"h1", "h2", "h3", "h4", "h5", "h6"} |->
             CASE name = "h1" -> 1 [] name = "h2" -> 2 [] name = "h3" -> 3
               [] name = "h4" -> 4 [] name = "h5" -> 5 [] name = "h6" -> 6]

\* C24: for a body with at least one heading the segmenter returns one
\* section per heading element, the i-th section being that of the i-th
\* heading in document order whatever the levels and the section numbers,
\* with the depth of that heading (1..6) as its level.
C24_OneSectionPerHeading ==
    (segmentation.sections # None /\ HeadingElements(segmentation.body[1]) # <<>>) =>
        LET elements == HeadingElements(segmentation.body[1])
            sections == segmentation.sections[1]
        IN  /\ Len(sections) = Len(elements)
            /\ \A i \in 1..Len(sections) :
                  /\ sections[i].heading = i
                  /\ sections[i].level = Depth[elements[i].name]
                  /\ sections[i].level \in 1..6
                  /\ LET shown == strip(elements[i].text)
                     IN  \/ /\ sections[i].section_number = ""
                            /\ sections[i].title = string_of(shown)
                         \/ /\ sections[i].section_number # ""
                            /\ \E k \in 1..Len(shown) :
                                  /\ sections[i].section_number = string_of(SubSeq(shown, 1, k))
                                  /\ shown[k + 1] = " "
                                  /\ sections[i].title
                                        = string_of(strip(SubSeq(shown, k + 1, Len(shown))))

\* "2 B" under h3 followed by "1.1 A" under h1: two sections in that order.
C24_Witness ==
    /\ segmentation.sections # None
    /\ Len(segmentation.sections[1]) >= 2
    /\ segmentation.sections[1][1].level = 3
    /\ segmentation.sections[1][1].section_number = "2"
    /\ segmentation.sections[1][1].title = "B"
    /\ segmentation.sections[1][2].level = 1
    /\ segmentation.sections[1][2].section_number = "1.1"
    /\ segmentation.sections[1][2].title = "A"

\* C25: for a body without heading the segmenter returns exactly one
\* section: section_id "section_1", title "Main Content", level 1, an empty
\* section_number, and the whole document as content.
C25_WholeDocumentSection ==
    (segmentation.sections # None /\ HeadingElements(segmentation.body[1]) = <<>>) =>
        LET sections == segmentation.sections[1]
        IN  /\ Len(sections) = 1
            /\ sections[1].section_id = "section_1"
            /\ sections[1].title = "Main Content"
            /\ sections[1].level = 1
            /\ sections[1].section_number = ""
            /\ sections[1].content
                  = SelectSeq(document_order(segmentation.body[1], 1),
                              LAMBDA e : e.kind # "h")

\* A body of a paragraph, a container with a paragraph, and a paragraph.
C25_Witness ==
    /\ segmentation.sections # None
    /\ Len(segmentation.body[1]) = 3
    /\ segmentation.body[1][2].kind = "div"
    /\ Len(segmentation.sections[1]) = 1
    /\ segmentation.sections[1][1].title = "Main Content"
    /\ Len(segmentation.sections[1][1].content) = 3

\* The instance has returned from process_page.
Finished(w) == workers[w].pc \in {"skipped", "done"}

\* The records written so far by the Cache.set of an instance.
RecordsSet ==
    {cache_record(p, workers[w].current_version) :
        p \in PageIds, w \in {u \in Workers : workers[u].pc = "done"}}

\* C30: with two instances in process_page for the same page, every
\* Cache.get returned no record or the complete record written by one
\* Cache.set, the table holds at most one row for the page, and once both
\* instances have finished the cached version is not lower than the highest
\* version either of them published.
C30_ConcurrentInstances ==
    /\ \A w \in Workers :
          workers[w].cached_data # None => workers[w].cached_data[1] \in RecordsSet
    /\ \A p \in PageIds : Cardinality(select_where(document_cache, p)) <= 1
    /\ (\A w \in Workers : Finished(w)) =>
          \A p \in PageIds, w \in Workers :
              workers[w].published > 0 =>
                  \E r \in select_where(document_cache, p) :
                      json_loads(r.value).version >= workers[w].published

====
